---- MODULE Spec2Model ----
(***************************************************************************)
(* Context propagation of the pipeline utilities: the context store        *)
(* (log_helper.OurRitualContext), its header codec, the Pub/Sub producer   *)
(* and consumer hooks and the Temporal interceptors.                       *)
(*                                                                         *)
(* Text is modelled character by character: a Python str is a sequence of  *)
(* code points, a bytes object a sequence of numbers in 0..255.            *)
(***************************************************************************)
EXTENDS Integers, Sequences, FiniteSets, TLC

VARIABLES
  store,   \* the context variables of every execution context, and the dicts they refer to
  calls,   \* the number of calls made so far
  last,    \* the last call: who made it, what it was, what it was given and what it gave
  seen,    \* per unit, the result of its last to_list()
  own,     \* per unit, the annotations it set or decoded itself
  queue,   \* the Pub/Sub messages published and not yet delivered
  worker   \* the subscriber's worker thread: where it is in wrapped_callback

vars == <<store, calls, last, seen, own, queue, worker>>

(***************************************************************************)
(* Characters and strings                                                  *)
(***************************************************************************)

\* The printable ASCII characters from the space (32) to the tilde (126), in
\* code point order; the grave accent (96), which no text here has, is left out.
Printable ==
  << " ", "!", "\"", "#", "$", "%", "&", "'", "(", ")", "*", "+", ",", "-", ".", "/",
     "0", "1", "2", "3", "4", "5", "6", "7", "8", "9", ":", ";", "<", "=", ">", "?",
     "@", "A", "B", "C", "D", "E", "F", "G", "H", "I", "J", "K", "L", "M", "N", "O",
     "P", "Q", "R", "S", "T", "U", "V", "W", "X", "Y", "Z", "[", "\\", "]", "^", "_",
     "", "a", "b", "c", "d", "e", "f", "g", "h", "i", "j", "k", "l", "m", "n", "o",
     "p", "q", "r", "s", "t", "u", "v", "w", "x", "y", "z", "{", "|", "}", "~" >>

\* ord(c) of a printable ASCII character
Ord(c) == 31 + (CHOOSE i \in DOMAIN Printable : Printable[i] = c)

\* A string literal: the code points of a tuple of characters.
S(t) == [i \in 1..Len(t) |-> Ord(t[i])]

\* The characters the codec looks for: "\n", the double quote, "/", ":" and "=".
NL == 10
QUOTE == 34
SLASH == 47
COLON == 58
PAD == 61

RECURSIVE Join(_, _)
\* sep.join(ss)
Join(sep, ss) ==
  IF ss = <<>> THEN <<>>
  ELSE IF Len(ss) = 1 THEN ss[1]
  ELSE ss[1] \o sep \o Join(sep, Tail(ss))

\* s.startswith(p)
StartsWith(s, p) == Len(s) >= Len(p) /\ SubSeq(s, 1, Len(p)) = p

\* The least element of a set of numbers, and 0 for the empty set.
Least(xs) == IF xs = {} THEN 0 ELSE CHOOSE i \in xs : \A j \in xs : i <= j

\* The least index i >= from with s[i] = c, and 0 when there is none.
IndexOf(s, c, from) == Least({i \in from..Len(s) : s[i] = c})

\* str.isspace() of one character, which is also what \s of a str pattern matches.
IsSpace(c) == c \in {9, 10, 11, 12, 13, 28, 29, 30, 31, 32, 133, 160}

\* The least index i >= from with s[i] no white space, and 0 when there is none.
FirstNonSpace(s, from) == Least({i \in from..Len(s) : ~IsSpace(s[i])})

\* The greatest element of a set of numbers, and 0 for the empty set.
Greatest(xs) == IF xs = {} THEN 0 ELSE CHOOSE i \in xs : \A j \in xs : j <= i

\* The greatest index i with s[i] no white space, and 0 when there is none.
LastNonSpace(s) == Greatest({i \in 1..Len(s) : ~IsSpace(s[i])})

\* s.strip()
Strip(s) ==
  IF FirstNonSpace(s, 1) = 0 THEN <<>> ELSE SubSeq(s, FirstNonSpace(s, 1), LastNonSpace(s))

\* The position of the k-th of the n newlines of s; 0 stands before the first
\* line and Len(s) + 1 after the last.
LineCut(s, cuts, k) ==
  IF k = 0 THEN 0
  ELSE IF k = Cardinality(cuts) + 1 THEN Len(s) + 1
  ELSE CHOOSE i \in cuts : Cardinality({j \in cuts : j < i}) = k - 1

\* The pieces of s between the positions `cuts`.
CutAt(s, cuts) ==
  [k \in 1..(Cardinality(cuts) + 1) |->
     SubSeq(s, LineCut(s, cuts, k - 1) + 1, LineCut(s, cuts, k) - 1)]

\* s.split("\n")
SplitLines(s) == CutAt(s, {i \in 1..Len(s) : s[i] = NL})

(***************************************************************************)
(* Python values: None, str and int; dict keeps insertion order            *)
(***************************************************************************)

NoneV == [t |-> "None"]
StrV(s) == [t |-> "str", s |-> s]
IntV(n) == [t |-> "int", n |-> n]

RECURSIVE DecimalDigits(_)
\* The decimal digits of a natural number.
DecimalDigits(n) ==
  IF n < 10 THEN <<48 + n>> ELSE Append(DecimalDigits(n \div 10), 48 + (n % 10))

\* str(v)
PyStr(v) ==
  IF v.t = "str" THEN v.s
  ELSE IF v.t = "int"
    THEN (IF v.n < 0 THEN <<45>> \o DecimalDigits(-v.n) ELSE DecimalDigits(v.n))
  ELSE S(<<"N", "o", "n", "e">>)

\* A dict is the sequence of its items [k, v] in insertion order, keys distinct.
DictKeys(d) == {d[i].k : i \in 1..Len(d)}

\* d[k], for a key of d
DictGet(d, k) == d[CHOOSE i \in 1..Len(d) : d[i].k = k].v

\* d[k] = v: an existing key keeps its place, a new key goes last.
DictSet(d, k, v) ==
  IF k \in DictKeys(d)
  THEN [i \in 1..Len(d) |-> IF d[i].k = k THEN [k |-> k, v |-> v] ELSE d[i]]
  ELSE Append(d, [k |-> k, v |-> v])

(***************************************************************************)
(* UTF-8 and URL-safe base64, as the standard library computes them        *)
(***************************************************************************)

\* The UTF-8 bytes of one code point (no surrogates).
Utf8Bytes(c) ==
  IF c < 128 THEN <<c>>
  ELSE IF c < 2048 THEN <<192 + (c \div 64), 128 + (c % 64)>>
  ELSE IF c < 65536
    THEN <<224 + (c \div 4096), 128 + ((c \div 64) % 64), 128 + (c % 64)>>
  ELSE <<240 + (c \div 262144), 128 + ((c \div 4096) % 64),
         128 + ((c \div 64) % 64), 128 + (c % 64)>>

RECURSIVE Utf8EncodeAny(_)
\* s.encode("utf-8") one code point after the other.
Utf8EncodeAny(s) ==
  IF s = <<>> THEN <<>> ELSE Utf8Bytes(Head(s)) \o Utf8EncodeAny(Tail(s))

\* s.encode("utf-8"): ASCII text is its own encoding.
Utf8Encode(s) == IF \A i \in 1..Len(s) : s[i] < 128 THEN s ELSE Utf8EncodeAny(s)

\* The length of the UTF-8 sequence that the byte b1 starts, 0 when it starts none.
Utf8Width(b1) ==
  IF b1 < 128 THEN 1
  ELSE IF b1 >= 194 /\ b1 <= 223 THEN 2
  ELSE IF b1 >= 224 /\ b1 <= 239 THEN 3
  ELSE IF b1 >= 240 /\ b1 <= 244 THEN 4
  ELSE 0

\* The first n bytes of b are one well-formed UTF-8 sequence.
Utf8WellFormed(b, n) ==
  /\ n > 0
  /\ Len(b) >= n
  /\ \A i \in 2..n : b[i] >= 128 /\ b[i] <= 191
  /\ (b[1] = 224 => b[2] >= 160)
  /\ (b[1] = 237 => b[2] <= 159)
  /\ (b[1] = 240 => b[2] >= 144)
  /\ (b[1] = 244 => b[2] <= 143)

\* The code point of the well-formed sequence of n bytes at the head of b.
Utf8CodePoint(b, n) ==
  IF n = 1 THEN b[1]
  ELSE IF n = 2 THEN (b[1] - 192) * 64 + (b[2] - 128)
  ELSE IF n = 3 THEN (b[1] - 224) * 4096 + (b[2] - 128) * 64 + (b[3] - 128)
  ELSE (b[1] - 240) * 262144 + (b[2] - 128) * 4096 + (b[3] - 128) * 64 + (b[4] - 128)

\* A decoded code point in front of the decoding of the rest.
Utf8Cons(cp, rest) ==
  IF rest.ok THEN [ok |-> TRUE, s |-> <<cp>> \o rest.s] ELSE [ok |-> FALSE]

RECURSIVE Utf8DecodeAny(_, _)
\* b.decode("utf-8") one sequence after the other; n is the width of the first.
Utf8DecodeAny(b, n) ==
  IF b = <<>> THEN [ok |-> TRUE, s |-> <<>>]
  ELSE IF ~Utf8WellFormed(b, n) THEN [ok |-> FALSE]
  ELSE Utf8Cons(Utf8CodePoint(b, n),
                Utf8DecodeAny(SubSeq(b, n + 1, Len(b)),
                              IF Len(b) > n THEN Utf8Width(b[n + 1]) ELSE 0))

\* b.decode("utf-8"): [ok |-> TRUE, s |-> the str], or [ok |-> FALSE] for
\* UnicodeDecodeError. ASCII bytes decode to themselves.
Utf8Decode(b) ==
  IF \A i \in 1..Len(b) : b[i] < 128 THEN [ok |-> TRUE, s |-> b]
  ELSE Utf8DecodeAny(b, Utf8Width(b[1]))

\* s.encode("ascii"): [ok |-> FALSE] stands for UnicodeEncodeError.
AsciiEncode(s) ==
  IF \A i \in 1..Len(s) : s[i] < 128 THEN [ok |-> TRUE, b |-> s] ELSE [ok |-> FALSE]

\* The character of a 6-bit value in the URL-safe alphabet: A-Z a-z 0-9 - _
B64Char(v) ==
  IF v < 26 THEN 65 + v
  ELSE IF v < 52 THEN 97 + (v - 26)
  ELSE IF v < 62 THEN 48 + (v - 52)
  ELSE IF v = 62 THEN 45
  ELSE 95

\* The 6-bit value of a character, 64 for a character outside the alphabet.
\* urlsafe_b64decode maps - (45) and _ (95) to + (43) and / (47) and then
\* decodes the standard alphabet, so it takes all four.
B64Value(c) ==
  IF c >= 65 /\ c <= 90 THEN c - 65
  ELSE IF c >= 97 /\ c <= 122 THEN 26 + (c - 97)
  ELSE IF c >= 48 /\ c <= 57 THEN 52 + (c - 48)
  ELSE IF c \in {45, 43} THEN 62
  ELSE IF c \in {95, 47} THEN 63
  ELSE 64

\* The i-th byte of b, and 0 past its end.
ByteAt(b, i) == IF i <= Len(b) THEN b[i] ELSE 0

\* The p-th character (p in 0..3) of the group that encodes the bytes b1 b2 b3,
\* of which only `have` exist.
B64GroupChar(b1, b2, b3, have, p) ==
  IF p = 0 THEN B64Char(b1 \div 4)
  ELSE IF p = 1 THEN B64Char((b1 % 4) * 16 + (b2 \div 16))
  ELSE IF p = 2 THEN (IF have < 2 THEN PAD ELSE B64Char((b2 % 16) * 4 + (b3 \div 64)))
  ELSE (IF have < 3 THEN PAD ELSE B64Char(b3 % 64))

\* base64.urlsafe_b64encode(b).decode("ascii"): every three bytes give four
\* characters, and a last group of one or two bytes is padded with =.
B64Encode(b) ==
  [i \in 1..(4 * ((Len(b) + 2) \div 3)) |->
     B64GroupChar(ByteAt(b, 3 * ((i - 1) \div 4) + 1),
                  ByteAt(b, 3 * ((i - 1) \div 4) + 2),
                  ByteAt(b, 3 * ((i - 1) \div 4) + 3),
                  Len(b) - 3 * ((i - 1) \div 4),
                  (i - 1) % 4)]

\* A character of the base64 alphabet.
IsB64Data(c) == B64Value(c) < 64

\* An = before position i with no character of the alphabet between it and i.
B64PadBefore(a, i) ==
  \E j \in 1..(i - 1) : a[j] = PAD /\ \A m \in j..i : ~IsB64Data(a[m])

\* The = at position i ends the input: it completes the padding of a group of
\* which `quad` characters were read (one = after three, two = after two).
B64IsStop(a, i, quad) ==
  a[i] = PAD /\ (quad = 3 \/ (quad = 2 /\ B64PadBefore(a, i)))

\* The position of the = that ends the input, and 0 when none does.
B64Stop(a) ==
  Least({i \in 1..Len(a) :
           B64IsStop(a, i, Cardinality({j \in 1..(i - 1) : IsB64Data(a[j])}) % 4)})

\* The k-th byte that the 6-bit values of v give.
B64Byte(v, k, g) ==
  IF (k - 1) % 3 = 0 THEN B64Value(v[g + 1]) * 4 + (B64Value(v[g + 2]) \div 16)
  ELSE IF (k - 1) % 3 = 1
    THEN (B64Value(v[g + 2]) % 16) * 16 + (B64Value(v[g + 3]) \div 4)
  ELSE (B64Value(v[g + 3]) % 4) * 64 + B64Value(v[g + 4])

\* The bytes of the alphabet characters v read up to the stop; data that ends
\* inside a group without a stop is binascii.Error, here [ok |-> FALSE].
B64Finish(v, stop) ==
  IF stop = 0 /\ Len(v) % 4 # 0 THEN [ok |-> FALSE]
  ELSE [ok |-> TRUE,
        b |-> [k \in 1..((Len(v) * 6) \div 8) |-> B64Byte(v, k, 4 * ((k - 1) \div 3))]]

\* The characters of a before the stop (all of a when the stop is 0).
B64Upto(a, stop) == IF stop = 0 THEN a ELSE SubSeq(a, 1, stop - 1)

\* base64.urlsafe_b64decode(a), which is binascii.a2b_base64 in its lenient
\* mode: a character outside the alphabet is skipped, and an = that does not
\* end the input is skipped too.
B64Decode(a) == B64Finish(SelectSeq(B64Upto(a, B64Stop(a)), IsB64Data), B64Stop(a))

(***************************************************************************)
(* The context store's codec (log_helper.OurRitualContext)                 *)
(***************************************************************************)

\* "ourritual/"
ROOT == S(<<"o", "u", "r", "r", "i", "t", "u", "a", "l", "/">>)
\* "topic"
TOPIC == S(<<"t", "o", "p", "i", "c">>)
\* "name"
NAME == S(<<"n", "a", "m", "e">>)
\* "ourritual/topic/name"
TOPIC_NAME_KEY ==
  S(<<"o", "u", "r", "r", "i", "t", "u", "a", "l", "/",
      "t", "o", "p", "i", "c", "/", "n", "a", "m", "e">>)

\* A dict object as a value: custom_info is None or one of these.
DictV(items) == [t |-> "dict", items |-> items]

RECURSIVE FlattenCustom(_, _)
\* The loop of to_list over custom_info.items(): every value that is not None
\* goes to result["ourritual/<key>"] as str(value).
FlattenCustom(result, items) ==
  IF items = <<>> THEN result
  ELSE FlattenCustom(
         (IF Head(items).v # NoneV
          THEN DictSet(result, ROOT \o Head(items).k, PyStr(Head(items).v))
          ELSE result),
         Tail(items))

\* to_list() of a store whose topic is `topic` (None or a str) and whose
\* custom_info is `custom` (None or a dict): a dict of str to str.
ToList(topic, custom) ==
  FlattenCustom(IF topic # NoneV THEN <<[k |-> TOPIC_NAME_KEY, v |-> topic.s]>> ELSE <<>>,
                IF custom # NoneV THEN custom.items ELSE <<>>)

\* One line of the header text: key: "value"
HeaderLine(k, v) == k \o <<COLON, 32, QUOTE>> \o v \o <<QUOTE>>

\* The text of the lines, joined by newlines, in UTF-8 and base64url.
EncodeLines(json_list) == B64Encode(Utf8Encode(Join(<<NL>>, json_list)))

\* The last lines of to_header(), from json_dict = to_list() on: the empty
\* string when json_dict is empty, else its lines encoded.
HeaderOf(json_dict) ==
  IF json_dict = <<>> THEN <<>>
  ELSE EncodeLines([i \in 1..Len(json_dict) |-> HeaderLine(json_dict[i].k, json_dict[i].v)])

\* to_header()
ToHeader(topic, custom) == HeaderOf(ToList(topic, custom))

NoMatch == [ok |-> FALSE]

\* The tail  :\s*"([^"]*)"  of both patterns with the colon at position i and
\* the first character after the white space at position q (0: there is none).
QuotedFrom(line, i, q) ==
  IF /\ i >= 1
     /\ i <= Len(line)
     /\ line[i] = COLON
     /\ q # 0
     /\ line[q] = QUOTE
     /\ IndexOf(line, QUOTE, q + 1) # 0
  THEN [ok |-> TRUE, value |-> SubSeq(line, q + 1, IndexOf(line, QUOTE, q + 1) - 1)]
  ELSE NoMatch

\* The tail  :\s*"([^"]*)"  tried with the colon at position i of the line:
\* [ok |-> TRUE, value |-> the group] or NoMatch.
MatchQuoted(line, i) == QuotedFrom(line, i, FirstNonSpace(line, i + 1))

\* The groups of pattern_with_section, the slash that ends the section being at
\* position `slash` and the colon that ends the key path at `colon` (0: none).
SectionGroups(line, slash, colon) ==
  IF colon = 0 THEN NoMatch
  ELSE [ok |-> TRUE,
        section |-> SubSeq(line, Len(ROOT) + 1, slash - 1),
        key_path |-> SubSeq(line, slash + 1, colon - 1),
        value |-> MatchQuoted(line, colon).value]

\* pattern_with_section after the root, the first slash after the root being at
\* position `slash` (0: none). The section ([^/]+) is not empty; the key path
\* (.+?) is the shortest text of one character or more that the tail follows.
SectionAt(line, slash) ==
  IF slash <= Len(ROOT) + 1 THEN NoMatch
  ELSE SectionGroups(line, slash,
                     Least({i \in (slash + 2)..Len(line) : MatchQuoted(line, i).ok}))

\* re.match(r'ourritual/([^/]+)/(.+?):\s*"([^"]*)"', line)
MatchWithSection(line) ==
  IF StartsWith(line, ROOT) THEN SectionAt(line, IndexOf(line, SLASH, Len(ROOT) + 1))
  ELSE NoMatch

\* pattern_direct after the root, the first colon after the root being at
\* position `colon` (0: none). The key ([^:]+) is not empty.
DirectAt(line, colon) ==
  IF colon > Len(ROOT) + 1 /\ MatchQuoted(line, colon).ok
  THEN [ok |-> TRUE,
        key |-> SubSeq(line, Len(ROOT) + 1, colon - 1),
        value |-> MatchQuoted(line, colon).value]
  ELSE NoMatch

\* re.match(r'ourritual/([^:]+):\s*"([^"]*)"', line)
MatchDirect(line) ==
  IF StartsWith(line, ROOT) THEN DirectAt(line, IndexOf(line, COLON, Len(ROOT) + 1))
  ELSE NoMatch

\* A loop that gives up what it has collected at a line matching neither
\* pattern, instead of skipping the line: the variant of Collected that C8
\* excludes.
CollectedOrReset(acc, with_section, direct) ==
  IF ~with_section.ok /\ ~direct.ok
  THEN [acc EXCEPT !.topic_data = NoneV, !.custom_data = <<>>]
  ELSE IF with_section.ok
    THEN (IF with_section.section = TOPIC /\ with_section.key_path = NAME
          THEN [acc EXCEPT !.topic_data = StrV(with_section.value)]
          ELSE acc)
  ELSE IF direct.key # TOPIC
    THEN [acc EXCEPT !.custom_data = DictSet(@, direct.key, StrV(direct.value))]
  ELSE acc

\* What the loop of from_header does with one line, given the two matches:
\* `acc` holds topic_data and custom_data so far. A line that matches
\* pattern_with_section is never tried against pattern_direct.
Collected(acc, with_section, direct) ==
  IF with_section.ok
  THEN (IF with_section.section = TOPIC /\ with_section.key_path = NAME
        THEN [acc EXCEPT !.topic_data = StrV(with_section.value)]
        ELSE acc)
  ELSE IF direct.ok /\ direct.key # TOPIC
    THEN [acc EXCEPT !.custom_data = DictSet(@, direct.key, StrV(direct.value))]
  ELSE acc

\* One pass of the loop of from_header, `line` being the stripped line.
ParseLine(acc, line) ==
  IF line = <<>> THEN acc ELSE Collected(acc, MatchWithSection(line), MatchDirect(line))

RECURSIVE ParseLines(_, _)
\* The loop of from_header over decoded_str.split("\n")
ParseLines(acc, lines) ==
  IF lines = <<>> THEN acc
  ELSE ParseLines(ParseLine(acc, Strip(Head(lines))), Tail(lines))

\* What from_header collects when it returns early: nothing. `skipped` says
\* that it returned before the loop, `raised` that an exception left it.
Nothing == [skipped |-> TRUE, raised |-> FALSE, topic_data |-> NoneV, custom_data |-> <<>>]

\* base64.urlsafe_b64decode(header.encode("ascii")) inside the try
DecodeBytes(ascii) == IF ascii.ok THEN B64Decode(ascii.b) ELSE [ok |-> FALSE]

\* decoded_bytes.decode("utf-8") inside the try
DecodeText(bytes) == IF bytes.ok THEN Utf8Decode(bytes.b) ELSE [ok |-> FALSE]

\* The decoding without the except clause, so that a failure leaves
\* from_header as an exception: the variant of ParseText that C7 excludes.
ParseTextUnguarded(text) ==
  IF ~text.ok THEN [Nothing EXCEPT !.raised = TRUE]
  ELSE ParseLines([Nothing EXCEPT !.skipped = FALSE], SplitLines(text.s))

\* from_header after the try: the except clause returns when the decoding
\* failed, else the loop runs over the lines of the text.
ParseText(text) ==
  IF ~text.ok THEN Nothing
  ELSE ParseLines([Nothing EXCEPT !.skipped = FALSE], SplitLines(text.s))

\* from_header up to its last four lines: what the header makes it collect.
ParseHeader(header) ==
  IF header = <<>> \/ Strip(header) = <<>> THEN Nothing
  ELSE ParseText(DecodeText(DecodeBytes(AsciiEncode(header))))

(***************************************************************************)
(* The context store: two ContextVars per execution context                *)
(***************************************************************************)

\* The logical units: each runs in an execution context of its own (a thread
\* of the subscriber's pool, an asyncio task, a workflow, an activity).
Units == {"A", "B"}

\* A ContextVar holds a reference to a dict, never the dict itself.
Ref(o) == [t |-> "ref", id |-> o]

\* One dict object for each reference that can be alive at a time.
ObjIds == 1..Cardinality(Units)

\* Every context variable at its default None; no dict allocated.
EmptyStore ==
  [topic |-> [u \in Units |-> NoneV],
   custom |-> [u \in Units |-> NoneV],
   heap |-> [o \in ObjIds |-> <<>>]]

\* The dict objects some execution context refers to.
Live(st) == {st.custom[u].id : u \in {x \in Units : st.custom[x] # NoneV}}

\* Garbage collection: a dict nothing refers to is gone.
Collect(st) ==
  [st EXCEPT !.heap = [o \in ObjIds |-> IF o \in Live(st) THEN st.heap[o] ELSE <<>>]]

\* The object a new dict becomes when u's variable is about to be rebound.
FreshFor(st, u) == Least(ObjIds \ Live([st EXCEPT !.custom[u] = NoneV]))

\* The dict `items` becomes the object o, and u's variable refers to it.
Bind(st, u, o, items) == Collect([st EXCEPT !.custom[u] = Ref(o), !.heap[o] = items])

\* self._custom_info_var.set(d) with a newly built dict d
BindNewDict(st, u, items) == Bind(st, u, FreshFor(st, u), items)

\* The property topic_info
TopicInfo(st, u) == st.topic[u]

\* The property custom_info: None, or the dict the variable refers to.
CustomInfo(st, u) ==
  IF st.custom[u] = NoneV THEN NoneV ELSE DictV(st.heap[st.custom[u].id])

\* set_topic_info on one attribute of the singleton instead of a ContextVar:
\* the topic of every unit at once. The variant of SetTopicInfo that C2 excludes.
SetTopicInfoShared(st, u, topic) == [st EXCEPT !.topic = [x \in Units |-> topic]]

\* set_topic_info(topic)
SetTopicInfo(st, u, topic) == [st EXCEPT !.topic[u] = topic]

\* set_custom_info that binds a new dict with the one entry, whatever the
\* variable holds.
SetCustomInfoAnew(st, u, key, value) == BindNewDict(st, u, <<[k |-> key, v |-> value]>>)

\* set_custom_info(key, value): the dict the variable refers to is updated in
\* place and bound again; a new dict is made only when the variable is None.
SetCustomInfo(st, u, key, value) ==
  IF st.custom[u] = NoneV
  THEN BindNewDict(st, u, <<[k |-> key, v |-> value]>>)
  ELSE [st EXCEPT !.heap[st.custom[u].id] = DictSet(@, key, value)]

\* to_list() of unit u
ToListOf(st, u) == ToList(TopicInfo(st, u), CustomInfo(st, u))

\* to_header() of unit u
ToHeaderOf(st, u) == ToHeader(TopicInfo(st, u), CustomInfo(st, u))

\* if topic_data is not None: self.set_topic_info(topic_data)
InstallTopic(st, u, topic_data) ==
  IF topic_data # NoneV THEN SetTopicInfo(st, u, topic_data) ELSE st

\* if custom_data: self._custom_info_var.set(custom_data)
InstallCustom(st, u, custom_data) ==
  IF custom_data # <<>> THEN BindNewDict(st, u, custom_data) ELSE st

\* The end of from_header: nothing when it returned early, else the topic is
\* set when a topic line was parsed and the custom dict is replaced when a
\* custom line was parsed.
Install(st, u, parsed) ==
  IF parsed.skipped \/ parsed.raised THEN st
  ELSE InstallCustom(InstallTopic(st, u, parsed.topic_data), u, parsed.custom_data)

\* from_header(header): the store afterwards.
FromHeader(st, u, header) == Install(st, u, ParseHeader(header))

\* from_header(header) left by an exception.
FromHeaderRaises(header) == ParseHeader(header).raised

\* restore_context_from_header(header_value)
RestoreContextFromHeader(st, u, header_value) ==
  IF header_value # <<>> THEN FromHeader(st, u, header_value) ELSE st

\* restore_context_from_header(header_value) left by an exception.
RestoreContextRaises(header_value) ==
  IF header_value # <<>> THEN FromHeaderRaises(header_value) ELSE FALSE

\* A child unit started in a copy of the parent's execution context
\* (contextvars.copy_context): the copy binds each variable to the same object.
CopyContext(st, parent, child) ==
  Collect([st EXCEPT !.topic[child] = st.topic[parent], !.custom[child] = st.custom[parent]])

\* The entries of custom_info, none when it is None.
CustomEntries(st, u) == IF st.custom[u] = NoneV THEN <<>> ELSE st.heap[st.custom[u].id]

\* The store of unit u is empty: no topic and no custom entry.
IsEmptyContext(st, u) == TopicInfo(st, u) = NoneV /\ CustomEntries(st, u) = <<>>

(***************************************************************************)
(* The calls of the units and what they are given                          *)
(***************************************************************************)

\* The calls made in one run, over all units.
MaxCalls == 4

\* What each unit writes: its own topic and its own custom value, so that an
\* annotation says which unit it came from.
TopicOfUnit == [u \in Units |-> StrV(S(<<"t", u>>))]
ValueOfUnit == [u \in Units |-> IF u = "A" THEN StrV(S(<<"1">>)) ELSE IntV(2)]

\* The keys of set_custom_info: a plain one and one of the documented form.
PLAIN_KEY == S(<<"a">>)
SESSION_ID == S(<<"s", "e", "s", "s", "i", "o", "n", "/", "i", "d">>)
ApiKeys == {PLAIN_KEY, SESSION_ID}
ApiTopics == [u \in Units |-> {NoneV, TopicOfUnit[u]}]
ApiValues == [u \in Units |-> {NoneV, ValueOfUnit[u]}]

\* A context: a topic (None or a str) and custom_info (None or a dict).
Context(topic, custom) == [topic |-> topic, custom |-> custom]
EmptyContext == Context(NoneV, NoneV)

\* The context of unit u
ContextOf(st, u) == Context(TopicInfo(st, u), CustomInfo(st, u))

\* The entries (key, value) of a flattened map.
Entries(d) == {<<d[i].k, d[i].v>> : i \in 1..Len(d)}

\* The annotations of a context, as to_list() names them.
Annotations(ctx) == Entries(ToList(ctx.topic, ctx.custom))

\* The contexts whose headers a unit is given to decode: the empty one, and one
\* with the unit's own topic and custom value.
Received ==
  [u \in Units |->
     {EmptyContext,
      Context(TopicOfUnit[u], DictV(<<[k |-> PLAIN_KEY, v |-> ValueOfUnit[u]]>>))}]

NoCall == [unit |-> "none", op |-> "none", input |-> NoneV, result |-> NoneV, raised |-> FALSE]

\* The record of a call.
Call(u, op, input, result, raised) ==
  [unit |-> u, op |-> op, input |-> input, result |-> result, raised |-> raised]

Idle ==
  [pc |-> "idle", message |-> NoneV, span |-> "none", outcome |-> "none", fresh |-> FALSE,
   invoked |-> 0, handler |-> NoneV, result |-> NoneV]

\* After construction: every context empty, nothing published, the worker idle.
InitStore ==
  /\ store = EmptyStore
  /\ calls = 0
  /\ last = NoCall
  /\ seen = [u \in Units |-> <<>>]
  /\ own = [u \in Units |-> {}]
  /\ queue = <<>>
  /\ worker = Idle

CallSetTopicInfo(u) ==
  /\ calls < MaxCalls
  /\ \E topic \in ApiTopics[u] :
       /\ store' = SetTopicInfo(store, u, topic)
       /\ own' = [own EXCEPT ![u] = @ \cup Annotations(Context(topic, NoneV))]
  /\ calls' = calls + 1
  /\ last' = Call(u, "set_topic_info", NoneV, NoneV, FALSE)
  /\ UNCHANGED <<seen, queue, worker>>

CallSetCustomInfo(u) ==
  /\ calls < MaxCalls
  /\ \E key \in ApiKeys, value \in ApiValues[u] :
       /\ store' = SetCustomInfo(store, u, key, value)
       /\ own' = [own EXCEPT ![u] =
                    @ \cup Annotations(Context(NoneV, DictV(<<[k |-> key, v |-> value]>>)))]
  /\ calls' = calls + 1
  /\ last' = Call(u, "set_custom_info", NoneV, NoneV, FALSE)
  /\ UNCHANGED <<seen, queue, worker>>

\* from_header of a header the unit was given
CallFromHeader(u) ==
  /\ calls < MaxCalls
  /\ \E ctx \in Received[u] :
       /\ store' = FromHeader(store, u, ToHeader(ctx.topic, ctx.custom))
       /\ own' = [own EXCEPT ![u] = @ \cup Annotations(ctx)]
  /\ calls' = calls + 1
  /\ last' = Call(u, "from_header", NoneV, NoneV, FALSE)
  /\ UNCHANGED <<seen, queue, worker>>

CallToList(u) ==
  /\ calls < MaxCalls
  /\ seen' = [seen EXCEPT ![u] = ToListOf(store, u)]
  /\ calls' = calls + 1
  /\ last' = Call(u, "to_list", NoneV, NoneV, FALSE)
  /\ UNCHANGED <<store, own, queue, worker>>

\* asyncio.create_task: unit B is started from unit A as a task, in a copy of
\* A's context.
StartTask ==
  /\ calls < MaxCalls
  /\ last.op # "none"
  /\ last.op # "create_task"
  /\ own["B"] = {}
  /\ seen["B"] = <<>>
  /\ store' = CopyContext(store, "A", "B")
  /\ calls' = calls + 1
  /\ last' = Call("A", "create_task", NoneV, NoneV, FALSE)
  /\ UNCHANGED <<seen, own, queue, worker>>

NextThreads ==
  \E u \in Units :
    \/ CallSetTopicInfo(u)
    \/ CallSetCustomInfo(u)
    \/ CallFromHeader(u)
    \/ CallToList(u)

\* Units on threads of their own: every unit starts from an empty context.
SpecThreads == InitStore /\ [][NextThreads]_vars

NextTasks == NextThreads \/ StartTask

\* Units of which one may be a task started from the other.
SpecTasks == InitStore /\ [][NextTasks]_vars

(***************************************************************************)
(* Pub/Sub: publish_message and the callback of wrap_message_callback      *)
(***************************************************************************)

\* The unit that publishes and the subscriber's worker thread, which runs one
\* callback after the other in the same execution context.
Producer == "A"
Worker == "B"

\* The messages in flight at a time.
MaxMessages == 2

\* The attribute of a message that carries the context header.
OURRITUAL_CONTEXT_HEADER == S(<<"o", "u", "r", "r", "i", "t", "u", "a", "l", "-",
                                "c", "o", "n", "t", "e", "x", "t">>)

\* attributes.get(key, default)
AttrGet(attributes, key, default) ==
  IF key \in DictKeys(attributes) THEN DictGet(attributes, key) ELSE default

\* A message in flight: its attributes and, for the properties, the context
\* of its publisher when it was published.
Message(attributes, sent) == [attributes |-> attributes, sent |-> sent]

\* The key that the trace propagator writes.
TRACEPARENT == S(<<"t", "r", "a", "c", "e", "p", "a", "r", "e", "n", "t">>)

\* The span context of a tracer without valid spans, and of no span at all.
NoSpan == [trace_id |-> 0, span_id |-> 0, trace_flags |-> 0]

\* span_context.is_valid
IsValid(span) == span.trace_id # 0 /\ span.span_id # 0

RECURSIVE FormatHex(_, _)
\* format(n, "0<width>x"), for n below 16 ^ width: digits 0-9 are the code
\* points from 48, a-f those from 97.
FormatHex(n, width) ==
  IF width = 0 THEN <<>>
  ELSE Append(FormatHex(n \div 16, width - 1),
              IF n % 16 < 10 THEN 48 + (n % 16) ELSE 87 + (n % 16))

\* The value of the trace propagator: 00-<trace id>-<span id>-<flags>
TraceParent(span) ==
  S(<<"0", "0", "-">>) \o FormatHex(span.trace_id, 32) \o S(<<"-">>)
    \o FormatHex(span.span_id, 16) \o S(<<"-">>) \o FormatHex(span.trace_flags, 2)

\* inject(attributes): a valid span context is written under the propagator's
\* key, an invalid one leaves the carrier as it is.
Inject(attributes, span) ==
  IF IsValid(span) THEN DictSet(attributes, TRACEPARENT, TraceParent(span)) ELSE attributes

\* if attributes is None: attributes = {}
OrEmpty(attributes) == IF attributes = NoneV THEN <<>> ELSE attributes.items

\* Attributes made anew around the context header, without the caller's own.
PublishedAttributesAnew(attributes, span, header) ==
  DictSet(<<>>, OURRITUAL_CONTEXT_HEADER, header)

\* The attributes that publish_message hands to publisher.publish: the
\* caller's, then inject(attributes), then the context header.
PublishedAttributes(attributes, span, header) ==
  DictSet(Inject(OrEmpty(attributes), span), OURRITUAL_CONTEXT_HEADER, header)

\* publish_message under a span with attributes of the caller: the attributes
\* get the header of the publisher's context, also when that header is the
\* empty string.
Publish(attributes, span) ==
  /\ calls < MaxCalls
  /\ Len(queue) < MaxMessages
  /\ queue' = Append(queue,
                     Message(PublishedAttributes(attributes, span, ToHeaderOf(store, Producer)),
                             ContextOf(store, Producer)))
  /\ calls' = calls + 1
  /\ last' = Call(Producer, "publish_message", [attributes |-> attributes, span |-> span],
                  NoneV, FALSE)
  /\ UNCHANGED <<store, seen, own, worker>>

\* publish_message without attributes under a tracer without valid spans.
PublishMessage == Publish(NoneV, NoSpan)

\* publish_to_dlq: the message is published without attributes.
PublishToDlq ==
  /\ calls < MaxCalls
  /\ Len(queue) < MaxMessages
  /\ queue' = Append(queue, Message(<<>>, EmptyContext))
  /\ calls' = calls + 1
  /\ last' = Call(Producer, "publish_to_dlq", NoneV, NoneV, FALSE)
  /\ UNCHANGED <<store, seen, own, worker>>

\* if ritual_context: OurRitualContext().from_header(ritual_context)
ReceiveContext(st, u, ritual_context) ==
  IF ritual_context # <<>> THEN FromHeader(st, u, ritual_context) ELSE st

\* What a call did: it returned a value or it raised an error.
Returned(value) == [kind |-> "return", value |-> value]
Raised(error) == [kind |-> "raise", value |-> error]

\* What handlers return and raise.
HandlerValues == {NoneV, StrV(S(<<"a", "c", "k">>))}
HandlerErrors == {[t |-> "exception", type |-> "ValueError"]}

\* A wrapped callback that lets no error of the handler out under a span.
WrappedCallbackSwallows(span, handler) ==
  IF span = "active" /\ handler.kind = "raise" THEN Returned(NoneV) ELSE handler

\* What wrapped_callback does with what callback_func did, in both branches:
\* return callback_func(message), and raise in the except clause.
WrappedCallback(span, handler) == handler

\* The span when callback_func is through: set_status(ERROR) and
\* record_exception in the except clause, and the end of the with block.
SpanAfter(span, handler) ==
  IF span # "active" THEN span
  ELSE IF handler.kind = "raise" THEN "error" ELSE "ended"

\* wrapped_callback up to the call of callback_func: the context attribute is
\* decoded when it is there and not empty, and the span is started when a
\* tracer is configured.
Receive ==
  /\ worker.pc = "idle"
  /\ queue # <<>>
  /\ \E tracer \in BOOLEAN :
       worker' = [pc |-> "handler",
                  message |-> Head(queue),
                  span |-> IF tracer THEN "active" ELSE "none",
                  outcome |-> "none",
                  fresh |-> IsEmptyContext(store, Worker),
                  invoked |-> 1, handler |-> NoneV, result |-> NoneV]
  /\ store' = ReceiveContext(
                store, Worker, AttrGet(Head(queue).attributes, OURRITUAL_CONTEXT_HEADER, <<>>))
  /\ queue' = Tail(queue)
  /\ last' = Call(Worker, "wrapped_callback", NoneV, NoneV, FALSE)
  /\ UNCHANGED <<calls, seen, own>>

\* callback_func returns: the span ends and wrapped_callback returns.
HandlerReturns ==
  /\ worker.pc = "handler"
  /\ \E value \in HandlerValues :
       worker' = [worker EXCEPT !.pc = "idle",
                                !.span = SpanAfter(@, Returned(value)),
                                !.outcome = "returned",
                                !.handler = Returned(value),
                                !.result = WrappedCallback(worker.span, Returned(value))]
  /\ last' = Call(Worker, "return", NoneV, NoneV, FALSE)
  /\ UNCHANGED <<store, calls, seen, own, queue>>

\* callback_func raises: under a span the error is recorded on it, and the
\* exception leaves wrapped_callback.
HandlerRaises ==
  /\ worker.pc = "handler"
  /\ \E error \in HandlerErrors :
       worker' = [worker EXCEPT !.pc = "idle",
                                !.span = SpanAfter(@, Raised(error)),
                                !.outcome = "raised",
                                !.handler = Raised(error),
                                !.result = WrappedCallback(worker.span, Raised(error))]
  /\ last' = Call(Worker, "raise", NoneV, NoneV, TRUE)
  /\ UNCHANGED <<store, calls, seen, own, queue>>

NextConsumer ==
  \/ CallSetTopicInfo(Producer)
  \/ CallSetCustomInfo(Producer)
  \/ PublishMessage
  \/ PublishToDlq
  \/ Receive
  \/ HandlerReturns
  \/ HandlerRaises

\* A producer, the messages in flight and one worker thread of the subscriber.
SpecConsumer == InitStore /\ [][NextConsumer]_vars

(***************************************************************************)
(* The header codec applied to drawn inputs                                *)
(***************************************************************************)

\* The unit that encodes and the unit that decodes.
Encoder == "A"
Decoder == "B"

\* The dicts set_custom_info can have built from the keys and values of unit u.
OneEntry(u) == {<<[k |-> k, v |-> v]>> : k \in ApiKeys, v \in ApiValues[u]}
TwoEntries(u) ==
  {d1 \o d2 : <<d1, d2>> \in {p \in OneEntry(u) \X OneEntry(u) : p[1][1].k # p[2][1].k}}

\* The contexts unit u can have built with set_topic_info and set_custom_info.
Contexts(u) ==
  {Context(topic, custom) :
     topic \in ApiTopics[u],
     custom \in {NoneV} \cup {DictV(d) : d \in OneEntry(u) \cup TwoEntries(u)}}

\* The contexts the decoding unit holds before it decodes.
Existing ==
  {Context(topic, custom) :
     topic \in ApiTopics[Decoder],
     custom \in {NoneV, DictV(<<[k |-> PLAIN_KEY, v |-> ValueOfUnit[Decoder]]>>)}}

RECURSIVE SetAll(_, _, _)
\* set_custom_info for every item, in order
SetAll(st, u, items) ==
  IF items = <<>> THEN st
  ELSE SetAll(SetCustomInfo(st, u, Head(items).k, Head(items).v), u, Tail(items))

\* The store after unit u has built the context ctx.
Prepare(st, u, ctx) ==
  SetAll(SetTopicInfo(st, u, ctx.topic), u,
         IF ctx.custom = NoneV THEN <<>> ELSE ctx.custom.items)

\* The encoder has built a context and the decoder holds one.
InitRoundTrip ==
  /\ store \in {Prepare(Prepare(EmptyStore, Encoder, sent), Decoder, held) :
                  sent \in Contexts(Encoder), held \in Existing}
  /\ calls = 0
  /\ last = NoCall
  /\ seen = [u \in Units |-> <<>>]
  /\ own = [u \in Units |-> {}]
  /\ queue = <<>>
  /\ worker = Idle

\* The decoder decodes the header of the encoder's context.
Transfer ==
  /\ last.op = "none"
  /\ store' = FromHeader(store, Decoder, ToHeaderOf(store, Encoder))
  /\ last' = Call(Decoder, "from_header",
                  [header |-> ToHeaderOf(store, Encoder),
                   fresh |-> IsEmptyContext(store, Decoder)],
                  NoneV,
                  FromHeaderRaises(ToHeaderOf(store, Encoder)))
  /\ calls' = calls + 1
  /\ UNCHANGED <<seen, own, queue, worker>>

\* to_header of one unit decoded by another.
SpecRoundTrip == InitRoundTrip /\ [][Transfer]_vars

\* The lines of one header text.
MaxLines == 2

\* Lines that from_header records: the topic line and custom lines.
WellFormedLines ==
  {[kind |-> "topic", key |-> TOPIC_NAME_KEY, value |-> S(<<"t">>)],
   [kind |-> "custom", key |-> S(<<"a">>), value |-> S(<<"1">>)],
   [kind |-> "custom", key |-> S(<<"b">>), value |-> S(<<"2">>)]}

\* Lines that match neither pattern: no root, no colon, no closing quote.
MalformedLines ==
  {[kind |-> "malformed", text |-> S(<<"o", "o", "p", "s">>)],
   [kind |-> "malformed", text |-> ROOT \o S(<<"a", " ", "\"", "1", "\"">>)],
   [kind |-> "malformed", text |-> ROOT \o S(<<"a", ":", " ", "\"", "1">>)]}

\* The text of a line.
LineText(l) ==
  IF l.kind = "topic" THEN HeaderLine(l.key, l.value)
  ELSE IF l.kind = "custom" THEN HeaderLine(ROOT \o l.key, l.value)
  ELSE l.text

\* The sequences of one to MaxLines lines.
LineSeqs == UNION {[1..n -> WellFormedLines \cup MalformedLines] : n \in 1..MaxLines}

\* The header of a text of the given lines.
HeaderOfLines(ls) == EncodeLines([i \in 1..Len(ls) |-> LineText(ls[i])])

\* Headers that are empty, blank, no base64, no UTF-8, or no ASCII.
Undecodable ==
  {<<>>, S(<<" ">>), S(<<"a">>), S(<<"a", "b", "c", "d", "e">>),
   S(<<"g", "A", "=", "=">>), <<233>>}

\* The decoder holds a context.
InitDecode ==
  /\ store \in {Prepare(EmptyStore, Decoder, held) : held \in Existing}
  /\ calls = 0
  /\ last = NoCall
  /\ seen = [u \in Units |-> <<>>]
  /\ own = [u \in Units |-> {}]
  /\ queue = <<>>
  /\ worker = Idle

\* from_header of a header that cannot be decoded
DecodeUndecodable ==
  /\ last.op = "none"
  /\ \E header \in Undecodable :
       /\ store' = FromHeader(store, Decoder, header)
       /\ last' = Call(Decoder, "from_header", [kind |-> "undecodable", header |-> header],
                       NoneV, FromHeaderRaises(header))
  /\ calls' = calls + 1
  /\ UNCHANGED <<seen, own, queue, worker>>

\* restore_context_from_header of a header that cannot be decoded
RestoreUndecodable ==
  /\ last.op = "none"
  /\ \E header \in Undecodable :
       /\ store' = RestoreContextFromHeader(store, Decoder, header)
       /\ last' = Call(Decoder, "restore_context_from_header",
                       [kind |-> "undecodable", header |-> header],
                       NoneV, RestoreContextRaises(header))
  /\ calls' = calls + 1
  /\ UNCHANGED <<seen, own, queue, worker>>

\* from_header of the header of a text of well-formed and malformed lines
DecodeLines ==
  /\ last.op = "none"
  /\ \E ls \in LineSeqs :
       /\ store' = FromHeader(store, Decoder, HeaderOfLines(ls))
       /\ last' = Call(Decoder, "from_header", [kind |-> "lines", lines |-> ls],
                       NoneV, FromHeaderRaises(HeaderOfLines(ls)))
  /\ calls' = calls + 1
  /\ UNCHANGED <<seen, own, queue, worker>>

\* restore_context_from_header of the header of a text of lines
RestoreLines ==
  /\ last.op = "none"
  /\ \E ls \in LineSeqs :
       /\ store' = RestoreContextFromHeader(store, Decoder, HeaderOfLines(ls))
       /\ last' = Call(Decoder, "restore_context_from_header", [kind |-> "lines", lines |-> ls],
                       NoneV, RestoreContextRaises(HeaderOfLines(ls)))
  /\ calls' = calls + 1
  /\ UNCHANGED <<seen, own, queue, worker>>

NextDecode == DecodeUndecodable \/ RestoreUndecodable \/ DecodeLines \/ RestoreLines

\* One decoding of a drawn header into a store that holds a context.
SpecDecode == InitDecode /\ [][NextDecode]_vars

(***************************************************************************)
(* The Temporal outbound interceptors (context_propagator)                 *)
(***************************************************************************)

\* "ourritual-context"
CONTEXT_HEADER_KEY ==
  S(<<"o", "u", "r", "r", "i", "t", "u", "a", "l", "-", "c", "o", "n", "t", "e", "x", "t">>)

\* A header of another propagator, which the interceptors pass on.
OTHER_HEADER_KEY == S(<<"_", "t", "r", "a", "c", "e", "r", "-", "d", "a", "t", "a">>)

\* payload_converter.to_payloads([value])[0]: the value as a JSON payload.
ToPayload(value) == [t |-> "payload", encoding |-> "json/plain", data |-> value]

\* _get_context_headers(): the context header when to_list() is not empty,
\* else no header.
GetContextHeaders(st, u) ==
  IF ToListOf(st, u) # <<>>
  THEN <<[k |-> CONTEXT_HEADER_KEY, v |-> ToPayload(ToListOf(st, u))]>>
  ELSE <<>>

RECURSIVE DictUpdate(_, _)
\* d.update(e)
DictUpdate(d, e) ==
  IF e = <<>> THEN d ELSE DictUpdate(DictSet(d, Head(e).k, Head(e).v), Tail(e))

\* merged = dict(existing_headers): the update goes to the copy, and the
\* caller's map is afterwards what it was.
ExistingAfterMerge(existing_headers, context_headers) == existing_headers

\* A merge that passes on the context headers alone.
MergedContextOnly(existing_headers, context_headers) == context_headers

\* The end of _merge_headers, context_headers being _get_context_headers():
\* existing headers (None is modelled as the empty dict, which is falsy too)
\* are copied and updated.
Merged(existing_headers, context_headers) ==
  IF existing_headers # <<>> THEN DictUpdate(existing_headers, context_headers)
  ELSE context_headers

\* _merge_headers(existing_headers)
MergeHeaders(st, u, existing_headers) == Merged(existing_headers, GetContextHeaders(st, u))

\* The context a header was inherited from: one of an earlier hop.
InheritedPayload ==
  ToPayload(<<[k |-> TOPIC_NAME_KEY, v |-> S(<<"o", "l", "d">>)]>>)

OtherPayload == ToPayload(S(<<"x">>))

\* The header maps a call comes with.
InputHeaders ==
  {<<>>,
   <<[k |-> OTHER_HEADER_KEY, v |-> OtherPayload]>>,
   <<[k |-> CONTEXT_HEADER_KEY, v |-> InheritedPayload]>>,
   <<[k |-> OTHER_HEADER_KEY, v |-> OtherPayload],
     [k |-> CONTEXT_HEADER_KEY, v |-> InheritedPayload]>>}

\* A call through an outbound interceptor: the next interceptor gets the input
\* with headers=_merge_headers(input.headers).
Start(u, op) ==
  /\ calls < MaxCalls
  /\ \E headers \in InputHeaders :
       last' = Call(u, op, headers, MergeHeaders(store, u, headers), FALSE)
  /\ calls' = calls + 1
  /\ UNCHANGED <<store, seen, own, queue, worker>>

\* ContextWorkflowOutboundInterceptor.start_activity
StartActivity(u) == Start(u, "start_activity")

\* ContextWorkflowOutboundInterceptor.start_local_activity
StartLocalActivity(u) == Start(u, "start_local_activity")

\* ContextWorkflowOutboundInterceptor.start_child_workflow
StartChildWorkflow(u) == Start(u, "start_child_workflow")

\* ContextClientOutboundInterceptor.start_workflow
StartWorkflow(u) == Start(u, "start_workflow")

StartOps == {"start_activity", "start_local_activity", "start_child_workflow", "start_workflow"}

NextInterceptor ==
  \E u \in Units :
    \/ CallSetTopicInfo(u)
    \/ CallSetCustomInfo(u)
    \/ StartActivity(u)
    \/ StartLocalActivity(u)
    \/ StartChildWorkflow(u)
    \/ StartWorkflow(u)

\* Workflows and clients that annotate their context and start calls.
SpecInterceptor == InitStore /\ [][NextInterceptor]_vars

(***************************************************************************)
(* The Temporal inbound interceptors and the result wrapper                *)
(***************************************************************************)

\* The unit that issues a call (a workflow or a client) and the unit the
\* worker runs for it (an activity or a workflow).
Caller == "A"
Callee == "B"

\* "test": the custom key the inbound interceptors leave out.
TEST_KEY == S(<<"t", "e", "s", "t">>)
\* "ourritual/test"
EXCLUDED_KEY == S(<<"o", "u", "r", "r", "i", "t", "u", "a", "l", "/", "t", "e", "s", "t">>)

\* The key of the first entry of SessionInformation.add_to_context.
SESSION_KEY ==
  S(<<"o", "u", "r", "r", "i", "t", "u", "a", "l", "/",
      "s", "e", "s", "s", "i", "o", "n", "/", "i", "d">>)
\* self.session_id
SessionIdValue == StrV(S(<<"7">>))

\* A payload under the context key that no converter decodes.
GarbledPayload == [t |-> "payload", encoding |-> "binary/garbled", data |-> <<>>]

\* payload_converter.from_payloads([payload])[0]: the value of a JSON payload;
\* any other payload raises.
FromPayload(payload) ==
  IF payload.encoding = "json/plain" THEN [ok |-> TRUE, value |-> payload.data]
  ELSE [ok |-> FALSE, value |-> <<>>]

\* One turn of the loop of _restore_context_from_dict: the topic key sets the
\* topic, any other key under the root except "ourritual/test" sets the custom
\* entry named by the rest of the key.
RestoreEntry(st, u, key, value) ==
  IF key = TOPIC_NAME_KEY THEN SetTopicInfo(st, u, StrV(value))
  ELSE IF StartsWith(key, ROOT) /\ key # EXCLUDED_KEY
    THEN SetCustomInfo(st, u, SubSeq(key, Len(ROOT) + 1, Len(key)), StrV(value))
  ELSE st

RECURSIVE RestoreContextFromDict(_, _, _)
\* _restore_context_from_dict(context_dict)
RestoreContextFromDict(st, u, context_dict) ==
  IF context_dict = <<>> THEN st
  ELSE RestoreContextFromDict(
         RestoreEntry(st, u, Head(context_dict).k, Head(context_dict).v),
         u, Tail(context_dict))

\* What goes wrong inside the try blocks of execute_activity and
\* execute_workflow: info() raises outside a worker ("info"), the payload under
\* the context key cannot be decoded ("payload"), or nothing ("none").
RestoreFailure(headers, info) ==
  IF ~info THEN "info"
  ELSE IF headers # <<>> /\ CONTEXT_HEADER_KEY \in DictKeys(headers)
    THEN (IF FromPayload(DictGet(headers, CONTEXT_HEADER_KEY)).ok THEN "none" ELSE "payload")
  ELSE "none"

\* The inner except clause alone, as if the outer try block were not there.
CaughtInnerOnly(failure) == failure = "payload"

\* The except clauses: the inner one takes a failure of the payload, the outer
\* one a failure of info().
Caught(failure) == failure \in {"payload", "info"}

\* if context_dict and isinstance(context_dict, dict): restore it
RestoreDecoded(st, u, decoded) ==
  IF decoded.ok /\ decoded.value # <<>> THEN RestoreContextFromDict(st, u, decoded.value)
  ELSE st

\* The store after the try blocks: the context header is restored when info()
\* is there, the headers hold the key and the payload is decoded.
InboundRestore(st, u, headers, info) ==
  IF RestoreFailure(headers, info) = "none"
       /\ headers # <<>> /\ CONTEXT_HEADER_KEY \in DictKeys(headers)
  THEN RestoreDecoded(st, u, FromPayload(DictGet(headers, CONTEXT_HEADER_KEY)))
  ELSE st

\* A unit that begins in a copy of its caller's execution context, as a task
\* of the caller would: the variant of BeginUnit that C14 excludes.
BeginUnitInCaller(st, u) == CopyContext(st, Caller, u)

\* A unit that begins in the execution context the unit before it left: the
\* variant of BeginUnit that C15 excludes.
BeginUnitReused(st, u) == st

\* The execution context a unit begins in: the worker runs every activity and
\* every workflow in a context of its own, in which nothing is set.
BeginUnit(st, u) == Collect([st EXCEPT !.topic[u] = NoneV, !.custom[u] = NoneV])

\* capture_context_header()
CaptureContextHeader(st, u) == ToHeaderOf(st, u)

\* ActivityResultWithContext(result=..., context_header=...)
ActivityResultWithContext(result, context_header) ==
  [t |-> "ActivityResultWithContext", result |-> result, context_header |-> context_header]

\* A result returned as it is, without the wrapper.
PlainResult(result) == [t |-> "plain", result |-> result, context_header |-> <<>>]

\* The calls of a caller and of the units called for it.
MaxHopCalls == 3

\* The custom keys and the value the caller writes.
CallerKeys == {PLAIN_KEY, TEST_KEY}
CallerValue == StrV(S(<<"1">>))

\* The headers a call comes with before the outbound interceptor: none, a
\* context header of an earlier hop, or one that cannot be decoded.
CallHeaders ==
  {<<>>,
   <<[k |-> CONTEXT_HEADER_KEY, v |-> InheritedPayload]>>,
   <<[k |-> CONTEXT_HEADER_KEY, v |-> GarbledPayload]>>}

\* The interceptor that receives what an outbound interceptor method starts.
InboundOf(op) ==
  IF op \in {"start_activity", "start_local_activity"} THEN "execute_activity"
  ELSE "execute_workflow"

\* A call in flight: the inbound interceptor it goes to, the headers it came
\* with, the headers it was passed on with and, for the properties, to_list()
\* of the caller when it was issued.
CallInFlight(op, input_headers, headers, sent) ==
  [op |-> InboundOf(op), input_headers |-> input_headers, headers |-> headers, sent |-> sent]

\* The worker between two units. Of a unit it keeps the call, whether info()
\* was there, how often the target was called, what the target did and what
\* the interceptor did with it, to_list() when the unit returned, whether the
\* caller restored the header, and whether the unit before had left a context.
NoUnit ==
  [pc |-> "idle", op |-> "none", call |-> NoneV, info |-> TRUE, invoked |-> 0,
   target |-> NoneV, result |-> NoneV, captured |-> <<>>, restored |-> FALSE,
   left |-> FALSE]

InitEngine ==
  /\ store = EmptyStore
  /\ calls = 0
  /\ last = NoCall
  /\ seen = [u \in Units |-> <<>>]
  /\ own = [u \in Units |-> {}]
  /\ queue = <<>>
  /\ worker = NoUnit

\* A set_topic_info that writes through to the messages already published, as
\* it would if they held the context itself and not its header: the variant
\* of CallerSetsTopic that C13 excludes.
CallerSetsTopicLive ==
  /\ calls < MaxHopCalls
  /\ \E topic \in ApiTopics[Caller] :
       /\ store' = SetTopicInfo(store, Caller, topic)
       /\ queue' = [i \in 1..Len(queue) |->
                      IF "attributes" \in DOMAIN queue[i]
                      THEN [queue[i] EXCEPT !.attributes =
                              DictSet(@, OURRITUAL_CONTEXT_HEADER,
                                      ToHeader(topic, CustomInfo(store, Caller)))]
                      ELSE queue[i]]
  /\ calls' = calls + 1
  /\ last' = Call(Caller, "set_topic_info", NoneV, NoneV, FALSE)
  /\ UNCHANGED <<seen, own, worker>>

\* The caller writes its context.
CallerSetsTopic ==
  /\ calls < MaxHopCalls
  /\ \E topic \in ApiTopics[Caller] : store' = SetTopicInfo(store, Caller, topic)
  /\ calls' = calls + 1
  /\ last' = Call(Caller, "set_topic_info", NoneV, NoneV, FALSE)
  /\ UNCHANGED <<seen, own, queue, worker>>

CallerSetsCustom ==
  /\ calls < MaxHopCalls
  /\ \E key \in CallerKeys : store' = SetCustomInfo(store, Caller, key, CallerValue)
  /\ calls' = calls + 1
  /\ last' = Call(Caller, "set_custom_info", NoneV, NoneV, FALSE)
  /\ UNCHANGED <<seen, own, queue, worker>>

\* The caller starts an activity or a workflow: the outbound interceptor
\* merges the context header into the headers and the call is on its way.
Dispatch(op) ==
  /\ calls < MaxHopCalls
  /\ queue = <<>>
  /\ \E input_headers \in CallHeaders :
       /\ queue' = <<CallInFlight(op, input_headers,
                                  MergeHeaders(store, Caller, input_headers),
                                  ToListOf(store, Caller))>>
       /\ last' = Call(Caller, op, input_headers, NoneV, FALSE)
  /\ calls' = calls + 1
  /\ UNCHANGED <<store, seen, own, worker>>

\* execute_activity / execute_workflow up to the call of the next interceptor:
\* the unit begins, the context header is restored inside the try blocks, and
\* the target function is called unless a failure was not caught.
Execute(op) ==
  /\ worker.pc # "target"
  /\ queue # <<>>
  /\ Head(queue).op = op
  /\ \E info \in BOOLEAN :
       /\ store' = InboundRestore(BeginUnit(store, Callee), Callee, Head(queue).headers, info)
       /\ worker' =
            IF Caught(RestoreFailure(Head(queue).headers, info))
                 \/ RestoreFailure(Head(queue).headers, info) = "none"
            THEN [NoUnit EXCEPT !.pc = "target", !.op = op, !.call = Head(queue),
                                !.info = info, !.invoked = 1,
                                !.left = ~IsEmptyContext(store, Callee)]
            ELSE [NoUnit EXCEPT !.pc = "raised", !.op = op, !.call = Head(queue),
                                !.info = info,
                                !.left = ~IsEmptyContext(store, Callee),
                                !.result = [kind |-> "raise",
                                            value |-> RestoreFailure(Head(queue).headers, info)]]
  /\ queue' = Tail(queue)
  /\ last' = Call(Callee, op, NoneV, NoneV, FALSE)
  /\ UNCHANGED <<calls, seen, own>>

\* ContextActivityInboundInterceptor.execute_activity
ExecuteActivity == Execute("execute_activity")

\* ContextWorkflowInboundInterceptor.execute_workflow
ExecuteWorkflow == Execute("execute_workflow")

\* The target function writes a custom entry.
TargetSetsCustom ==
  /\ worker.pc = "target"
  /\ calls < MaxHopCalls
  /\ store' = SetCustomInfo(store, Callee, PLAIN_KEY, ValueOfUnit[Callee])
  /\ calls' = calls + 1
  /\ last' = Call(Callee, "set_custom_info", NoneV, NoneV, FALSE)
  /\ UNCHANGED <<seen, own, queue, worker>>

\* The target function calls SessionInformation.add_to_context(), whose keys
\* all have the form of the first: "ourritual/session/id".
AddToContext ==
  /\ worker.pc = "target"
  /\ calls < MaxHopCalls
  /\ store' = SetCustomInfo(store, Callee, SESSION_KEY, SessionIdValue)
  /\ calls' = calls + 1
  /\ last' = Call(Callee, "add_to_context", NoneV, NoneV, FALSE)
  /\ UNCHANGED <<seen, own, queue, worker>>

\* What the inbound interceptor does with what the next interceptor did:
\* return await super().execute_activity(input)
Passed(target) == target

\* The target function returns, with or without the result wrapper.
TargetReturns ==
  /\ worker.pc = "target"
  /\ \E wrapped \in BOOLEAN :
       worker' =
         [worker EXCEPT
            !.pc = "returned",
            !.target = [kind |-> "return",
                        value |-> IF wrapped
                                  THEN ActivityResultWithContext(
                                         "done", CaptureContextHeader(store, Callee))
                                  ELSE PlainResult("done")],
            !.result = Passed([kind |-> "return",
                               value |-> IF wrapped
                                         THEN ActivityResultWithContext(
                                                "done", CaptureContextHeader(store, Callee))
                                         ELSE PlainResult("done")]),
            !.captured = ToListOf(store, Callee)]
  /\ last' = Call(Callee, "return", NoneV, NoneV, FALSE)
  /\ UNCHANGED <<store, calls, seen, own, queue>>

\* The target function raises, or is cancelled.
TargetRaises ==
  /\ worker.pc = "target"
  /\ \E error \in {"ApplicationError", "CancelledError"} :
       worker' = [worker EXCEPT !.pc = "raised",
                                !.target = [kind |-> "raise", value |-> error],
                                !.result = Passed([kind |-> "raise", value |-> error])]
  /\ last' = Call(Callee, "raise", NoneV, NoneV, TRUE)
  /\ UNCHANGED <<store, calls, seen, own, queue>>

\* The workflow that got a wrapped result with a header restores it:
\* if result.context_header: restore_context_from_header(result.context_header)
WorkflowRestores ==
  /\ worker.pc = "returned"
  /\ ~worker.restored
  /\ worker.result.value.t = "ActivityResultWithContext"
  /\ worker.result.value.context_header # <<>>
  /\ store' = RestoreContextFromHeader(store, Caller, worker.result.value.context_header)
  /\ worker' = [worker EXCEPT !.restored = TRUE]
  /\ last' = Call(Caller, "restore_context_from_header", NoneV, NoneV, FALSE)
  /\ UNCHANGED <<calls, seen, own, queue>>

NextEngine ==
  \/ CallerSetsTopic
  \/ CallerSetsCustom
  \/ \E op \in StartOps : Dispatch(op)
  \/ ExecuteActivity
  \/ ExecuteWorkflow
  \/ TargetSetsCustom
  \/ AddToContext
  \/ TargetReturns
  \/ TargetRaises
  \/ WorkflowRestores

\* A caller, its calls through the outbound interceptors, and the worker that
\* runs the activities and workflows called, one after the other.
SpecEngine == InitEngine /\ [][NextEngine]_vars

NextSnapshot ==
  \/ CallerSetsTopic
  \/ CallerSetsCustom
  \/ PublishMessage
  \/ \E op \in StartOps : Dispatch(op)

\* A unit that publishes messages and starts calls, and goes on writing its
\* context while they are on their way.
SpecSnapshot == InitEngine /\ [][NextSnapshot]_vars

(***************************************************************************)
(* Publishing with attributes of the caller, under a span                  *)
(***************************************************************************)

\* An attribute of the caller's own.
OWN_KEY == S(<<"k">>)
OwnValue == S(<<"v">>)

\* A value written by an earlier hop.
StaleValue == S(<<"o", "l", "d">>)

\* The attributes that callers pass: none, their own, the trace key of an
\* earlier hop, the context attribute of a message that is passed on.
CallerAttributes ==
  {NoneV,
   DictV(DictSet(<<>>, OWN_KEY, OwnValue)),
   DictV(DictSet(DictSet(<<>>, TRACEPARENT, StaleValue), OWN_KEY, OwnValue)),
   DictV(DictSet(DictSet(<<>>, OWN_KEY, OwnValue), OURRITUAL_CONTEXT_HEADER, StaleValue))}

\* The span contexts under which messages are published.
Spans == {NoSpan, [trace_id |-> 171, span_id |-> 5, trace_flags |-> 1]}

\* str(b) of a bool
BoolStr(b) == IF b THEN S(<<"T", "r", "u", "e">>) ELSE S(<<"F", "a", "l", "s", "e">>)

\* create_message_with_trace_context: with a trace id the attributes get the
\* propagator's key and trace_id, span_id, trace_sampled and trace_valid;
\* the attributes are returned, {} for None.
CreateMessageWithTraceContext(attributes, span) ==
  IF span.trace_id # 0
  THEN DictV(DictSet(
         DictSet(
           DictSet(
             DictSet(Inject(OrEmpty(attributes), span),
                     S(<<"t", "r", "a", "c", "e", "_", "i", "d">>), FormatHex(span.trace_id, 32)),
             S(<<"s", "p", "a", "n", "_", "i", "d">>), FormatHex(span.span_id, 16)),
           S(<<"t", "r", "a", "c", "e", "_", "s", "a", "m", "p", "l", "e", "d">>),
           DecimalDigits(span.trace_flags % 2)),
         S(<<"t", "r", "a", "c", "e", "_", "v", "a", "l", "i", "d">>), BoolStr(IsValid(span))))
  ELSE DictV(OrEmpty(attributes))

\* A caller publishes with attributes of its own.
PublishWithAttributes ==
  \E attributes \in CallerAttributes, span \in Spans : Publish(attributes, span)

\* The attributes that callers pass to create_message_with_trace_context.
OwnAttributes == {NoneV, DictV(DictSet(<<>>, OWN_KEY, OwnValue))}

\* A caller publishes what create_message_with_trace_context has prepared.
PublishPrepared ==
  \E attributes \in OwnAttributes, span \in Spans :
    Publish(CreateMessageWithTraceContext(attributes, span), span)

NextPublish ==
  \/ CallSetTopicInfo(Producer)
  \/ CallSetCustomInfo(Producer)
  \/ PublishWithAttributes
  \/ PublishPrepared

\* A producer that publishes messages with attributes, under spans.
SpecPublish == InitStore /\ [][NextPublish]_vars

(***************************************************************************)
(* Logging: JsonFormatter, OTELJSONFormatter and OTELCloudLoggingHandler   *)
(***************************************************************************)

\* The hooks that put the context on log records.
LogHooks == {"JsonFormatter.format", "OTELJSONFormatter.format", "OTELCloudLoggingHandler.emit"}

\* The records that the program logs.
LogRecords == {[levelname |-> "INFO", msg |-> S(<<"m">>)],
               [levelname |-> "NOTSET", msg |-> S(<<"m">>)]}

\* SEVERITY_MAP.get(record.levelname, record.levelname)
Severity(levelname) == IF levelname = "NOTSET" THEN "DEFAULT" ELSE levelname

\* OurRitualContext().to_list() inside the try block: the dict, or the
\* exception of a store that cannot be read, as with a value whose __str__
\* raises.
ReadContext(to_list, raises) ==
  IF raises THEN [ok |-> FALSE, value |-> <<>>] ELSE [ok |-> TRUE, value |-> to_list]

\* if ourritual_dict: fields["ourritual"] = ourritual_dict; the except clause
\* leaves the fields as they are.
AddContext(fields, read) ==
  IF read.ok /\ read.value # <<>> THEN DictSet(fields, "ourritual", read.value) ELSE fields

\* The trace fields, written when the span context has a trace id.
AddTrace(fields, span) ==
  IF span.trace_id # 0
  THEN DictSet(DictSet(fields, "otelTraceID", FormatHex(span.trace_id, 32)),
               "otelSpanID", FormatHex(span.span_id, 16))
  ELSE fields

\* severity and message of a record
BaseFields(record) ==
  <<[k |-> "severity", v |-> Severity(record.levelname)], [k |-> "message", v |-> record.msg]>>

\* json.dumps of a dict of fields
JsonDumps(fields) == [t |-> "json", object |-> fields]

\* JsonFormatter.format
JsonFormatterFormat(record, span, read) == JsonDumps(AddContext(BaseFields(record), read))

\* OTELJSONFormatter.format
OTELJSONFormatterFormat(record, span, read) ==
  JsonDumps(AddContext(AddTrace(BaseFields(record), span), read))

\* OTELCloudLoggingHandler.emit: record.extra is written, and the context is
\* read, inside the branch of a trace id.
OTELCloudLoggingHandlerEmit(record, span, read) ==
  [t |-> "record",
   severity |-> Severity(record.levelname),
   message |-> record.msg,
   extra |-> IF span.trace_id # 0 THEN AddContext(AddTrace(<<>>, span), read) ELSE <<>>]

\* What a hook makes of a record.
Emitted(hook, record, span, read) ==
  IF hook = "JsonFormatter.format" THEN JsonFormatterFormat(record, span, read)
  ELSE IF hook = "OTELJSONFormatter.format" THEN OTELJSONFormatterFormat(record, span, read)
  ELSE OTELCloudLoggingHandlerEmit(record, span, read)

\* The hook reaches its try block.
ReadsContext(hook, span) == hook # "OTELCloudLoggingHandler.emit" \/ span.trace_id # 0

\* A hook called for a record: [raised, emitted]. In the except clause the
\* hook calls logger.warning; when the hook serves the loggers of its own
\* module too, the warning comes back to the hook, the store fails again, and
\* so on until the RecursionError, which StreamHandler.emit raises again and
\* which nothing catches around OTELCloudLoggingHandler.emit.
HookCall(hook, record, span, read, reenters) ==
  IF ReadsContext(hook, span) /\ ~read.ok /\ reenters
  THEN [raised |-> TRUE, emitted |-> NoneV]
  ELSE [raised |-> FALSE, emitted |-> Emitted(hook, record, span, read)]

\* The call of a hook as a record of the history.
LogCall(hook, input, done) == Call(Producer, hook, input, done.emitted, done.raised)

\* The unit logs a record through one of the hooks, under some span, with a
\* store that can or cannot be read, in a configuration where the hook serves
\* its module's logger or does not.
Log(hook) ==
  /\ \E record \in LogRecords, span \in Spans, raises \in BOOLEAN, reenters \in BOOLEAN :
       last' = LogCall(hook,
                       [record |-> record, span |-> span, raises |-> raises,
                        reenters |-> reenters],
                       HookCall(hook, record, span,
                                ReadContext(ToListOf(store, Producer), raises), reenters))
  /\ UNCHANGED <<store, calls, seen, own, queue, worker>>

NextLogging ==
  \/ CallSetTopicInfo(Producer)
  \/ CallSetCustomInfo(Producer)
  \/ \E hook \in LogHooks : Log(hook)

\* A unit that writes its context and logs.
SpecLogging == InitStore /\ [][NextLogging]_vars
(***************************************************************************)
(* Properties                                                              *)
(***************************************************************************)

\* The items of custom_info, none when it is None.
ItemsOf(custom) == IF custom = NoneV THEN <<>> ELSE custom.items

\* Every entry of `items` whose value is not None is in `entries` under its
\* key, with str(value) as its value.
AllStringified(items, entries) ==
  \A e \in Entries(items) : e[2] # NoneV => <<e[1], StrV(PyStr(e[2]))>> \in Entries(entries)

\* C1: when wrapped_callback exits, the handler having returned or raised, the
\* context store of the worker is empty (no topic, no custom entry), so that
\* the next message on this worker starts from an empty store.
C1_ScopedRelease ==
  (worker.pc = "idle" /\ worker.outcome # "none") => IsEmptyContext(store, Worker)

C3_NoSharing ==
  [][\A u \in Units :
       (last'.op = "set_custom_info" /\ last'.unit # u) =>
         /\ CustomInfo(store', u) = CustomInfo(store, u)
         /\ ToListOf(store', u) = ToListOf(store, u)]_vars

\* What a message carries: its context attribute decoded into an empty store,
\* which is the empty store when the attribute is absent or empty.
Carried(message) ==
  FromHeader(EmptyStore, Worker,
             AttrGet(message.attributes, OURRITUAL_CONTEXT_HEADER, <<>>))

\* C4: when the handler is called, the worker's store holds exactly the
\* context the message carries, whatever the messages before it carried.
C4_ExactContext ==
  worker.pc = "handler" =>
    /\ TopicInfo(store, Worker) = TopicInfo(Carried(worker.message), Worker)
    /\ CustomEntries(store, Worker) = CustomEntries(Carried(worker.message), Worker)

\* C5: decoding to_header() into an empty store and encoding again gives the
\* same header, and every custom entry set with a value other than None, a
\* key like 'session/id' included, is there after the decoding with str(value).
C5_RoundTrip ==
  (last.op = "from_header" /\ last.input.fresh) =>
    /\ ToHeaderOf(store, Decoder) = last.input.header
    /\ AllStringified(CustomEntries(store, Encoder), CustomEntries(store, Decoder))

\* The message was published by publish_message.
IsPublished(message) == OURRITUAL_CONTEXT_HEADER \in DictKeys(message.attributes)

\* C6: when a message published by publish_message reaches a worker whose
\* store is empty, the handler reads the publisher's topic and, for every
\* custom entry of the publisher with a value other than None, str(value).
C6_EndToEnd ==
  (worker.pc = "handler" /\ worker.fresh /\ IsPublished(worker.message)) =>
    /\ TopicInfo(store, Worker) = worker.message.sent.topic
    /\ AllStringified(ItemsOf(worker.message.sent.custom), CustomEntries(store, Worker))

DecodeOps == {"from_header", "restore_context_from_header"}

\* C7: from_header and restore_context_from_header never raise, and a header
\* that is empty, blank or cannot be decoded leaves the topic and the custom
\* map as they were.
C7_DecodeIsSafe ==
  [][(last'.op \in DecodeOps) =>
       /\ ~last'.raised
       /\ (last'.input.kind = "undecodable" =>
             /\ TopicInfo(store', Decoder) = TopicInfo(store, Decoder)
             /\ CustomInfo(store', Decoder) = CustomInfo(store, Decoder))]_vars

\* A header that is no UTF-8 after base64 has been decoded into a store that
\* holds a topic and a custom entry, which are still there.
C7_Witness ==
  /\ last.op \in DecodeOps
  /\ last.input.kind = "undecodable"
  /\ last.input.header = S(<<"g", "A", "=", "=">>)
  /\ ~last.raised
  /\ TopicInfo(store, Decoder) = TopicOfUnit[Decoder]
  /\ CustomEntries(store, Decoder) # <<>>

\* The lines of one kind among ls.
LinesOf(ls, kind) == {ls[i] : i \in {j \in 1..Len(ls) : ls[j].kind = kind}}

\* C8: of a text that mixes well-formed and malformed lines in any order,
\* from_header records every well-formed entry (the topic of a topic line,
\* custom[key] = value of every custom line) and nothing else, without raising.
C8_PartialParse ==
  [][(last'.op \in DecodeOps /\ last'.input.kind = "lines") =>
       /\ ~last'.raised
       /\ \A l \in LinesOf(last'.input.lines, "topic") :
            TopicInfo(store', Decoder) = StrV(l.value)
       /\ (LinesOf(last'.input.lines, "topic") = {} =>
             TopicInfo(store', Decoder) = TopicInfo(store, Decoder))
       /\ (LinesOf(last'.input.lines, "custom") # {} =>
             Entries(CustomEntries(store', Decoder)) =
               {<<l.key, StrV(l.value)>> : l \in LinesOf(last'.input.lines, "custom")})
       /\ (LinesOf(last'.input.lines, "custom") = {} =>
             CustomInfo(store', Decoder) = CustomInfo(store, Decoder))]_vars

\* A malformed line followed by a custom line has been decoded, and the entry
\* of the custom line is in the store.
C8_Witness ==
  /\ last.op = "from_header"
  /\ last.input.kind = "lines"
  /\ Len(last.input.lines) = 2
  /\ last.input.lines[1].kind = "malformed"
  /\ last.input.lines[2].kind = "custom"
  /\ Entries(CustomEntries(store, Decoder)) =
       {<<last.input.lines[2].key, StrV(last.input.lines[2].value)>>}

\* C9: after from_header of a validly encoded header that is not empty, the
\* store holds exactly what the header holds: its topic, none when it has no
\* topic line, and exactly its custom entries.
C9_Replaces ==
  (last.op = "from_header" /\ last.input.header # <<>>) =>
    /\ TopicInfo(store, Decoder) =
         TopicInfo(FromHeader(EmptyStore, Decoder, last.input.header), Decoder)
    /\ CustomEntries(store, Decoder) =
         CustomEntries(FromHeader(EmptyStore, Decoder, last.input.header), Decoder)

\* C10: when the headers a call comes with hold the context header already,
\* the headers passed on hold under that key the current context as it is at
\* this call, whatever the current context is.
C10_LatestWins ==
  (last.op \in StartOps /\ CONTEXT_HEADER_KEY \in DictKeys(last.input)) =>
    /\ CONTEXT_HEADER_KEY \in DictKeys(last.result)
    /\ DictGet(last.result, CONTEXT_HEADER_KEY) = ToPayload(ToListOf(store, last.unit))


InboundOps == {"execute_activity", "execute_workflow"}

\* C11: when a call that came with no headers goes through the outbound
\* interceptor and the inbound interceptor of the unit called, which has
\* activity.info() or workflow.info(), then to_list() of the unit at the call
\* of the target function is to_list() of the caller when it issued the call.
C11_HopDelivers ==
  (last.op \in InboundOps /\ worker.pc = "target" /\ worker.info
     /\ worker.call.input_headers = <<>>) =>
    Entries(ToListOf(store, Callee)) = Entries(worker.call.sent)

\* C12: when an activity returns ActivityResultWithContext with the header of
\* capture_context_header() and the workflow calls restore_context_from_header
\* on it, to_list() of the workflow afterwards is to_list() of the activity
\* when it captured the header, add_to_context() entries included.
C12_ReturnPath ==
  (last.op = "restore_context_from_header" /\ worker.restored) =>
    Entries(ToListOf(store, Caller)) = Entries(worker.captured)

SetOps == {"set_topic_info", "set_custom_info"}

\* What a message or a call on its way carries is the context of its sender
\* as it was when it was sent: a message the header of that context, a call
\* the payload of that to_list() when that was not empty.
AttachedAsSent(m) ==
  IF "attributes" \in DOMAIN m
  THEN DictGet(m.attributes, OURRITUAL_CONTEXT_HEADER) = ToHeader(m.sent.topic, m.sent.custom)
  ELSE m.sent # <<>> => DictGet(m.headers, CONTEXT_HEADER_KEY) = ToPayload(m.sent)

\* C13: what publish_message or an outbound interceptor attached is the
\* context at that moment, and a set_topic_info or set_custom_info of the
\* sender afterwards leaves every message and call on its way as it was.
C13_Snapshot ==
  [][/\ \A i \in 1..Len(queue') : AttachedAsSent(queue'[i])
     /\ (last'.op \in SetOps => queue' = queue)]_vars

\* A message is on its way and its sender has since changed its context.
C13_Witness ==
  /\ last.op \in SetOps
  /\ queue # <<>>
  /\ "attributes" \in DOMAIN Head(queue)
  /\ ToHeader(Head(queue).sent.topic, Head(queue).sent.custom) # ToHeaderOf(store, Caller)
  /\ DictGet(Head(queue).attributes, OURRITUAL_CONTEXT_HEADER) # <<>>

\* C14: whatever the unit called does (it begins, writes its context, returns
\* with or without the wrapper, raises), the topic and the custom map of the
\* caller stay as they are; only the caller's own restore_context_from_header
\* brings the callee's context to it.
C14_CalleeInvisible ==
  [][(last'.unit = Callee) =>
       /\ TopicInfo(store', Caller) = TopicInfo(store, Caller)
       /\ CustomInfo(store', Caller) = CustomInfo(store, Caller)]_vars

\* The unit called has written a custom entry and returned without the
\* wrapper, and the caller, which has a custom map of its own, has none of it.
C14_Witness ==
  /\ last.unit = Callee
  /\ worker.pc = "returned"
  /\ worker.result.value.t = "plain"
  /\ PLAIN_KEY \in DictKeys(CustomEntries(store, Callee))
  /\ CustomInfo(store, Caller) # NoneV
  /\ PLAIN_KEY \notin DictKeys(CustomEntries(store, Caller))

C17_TargetAlwaysRuns ==
  /\ (last.op \in InboundOps) =>
       /\ worker.pc = "target"
       /\ worker.invoked = 1
       /\ (RestoreFailure(worker.call.headers, worker.info) # "none" =>
             IsEmptyContext(store, Callee))
  /\ (worker.pc \in {"returned", "raised"}) =>
       /\ worker.invoked = 1
       /\ worker.result = worker.target

\* A unit whose context header could not be decoded has run its target.
C17_Witness ==
  /\ worker.pc = "returned"
  /\ worker.invoked = 1
  /\ worker.info
  /\ RestoreFailure(worker.call.headers, worker.info) = "payload"
  /\ worker.result.kind = "return"

\* C16: wrapped_callback calls the handler exactly once per message; when the
\* handler returns, wrapped_callback returns the handler's value; when it
\* raises, wrapped_callback raises the same exception, recorded on the span
\* when a tracer is configured; with and without tracer.
C16_NotSwallowed ==
  /\ (last.op = "wrapped_callback") => (worker.pc = "handler" /\ worker.invoked = 1)
  /\ (worker.pc = "idle" /\ worker.outcome # "none") =>
       /\ worker.invoked = 1
       /\ worker.result = worker.handler
       /\ worker.handler.kind = (IF worker.outcome = "raised" THEN "raise" ELSE "return")
       /\ (worker.outcome = "raised" => worker.span \in {"error", "none"})

\* A handler has raised under a span and the exception has left the callback.
C16_Witness ==
  /\ worker.pc = "idle"
  /\ worker.outcome = "raised"
  /\ worker.span = "error"
  /\ worker.result.kind = "raise"
  /\ worker.result.value \in HandlerErrors

\* The keys that publish_message may write.
ChannelKeys == {OURRITUAL_CONTEXT_HEADER, TRACEPARENT}

\* C18: in the attributes that publish_message hands to the publisher the
\* context attribute is to_header() of the current context, the trace key is
\* that of the span when the span is valid and as the caller gave it when not,
\* and every other attribute is the caller's, unchanged, and no other is added.
C18_Channels ==
  (last.op = "publish_message") =>
    /\ DictGet(queue[Len(queue)].attributes, OURRITUAL_CONTEXT_HEADER) = ToHeaderOf(store, Producer)
    /\ IF IsValid(last.input.span)
       THEN DictGet(queue[Len(queue)].attributes, TRACEPARENT) = TraceParent(last.input.span)
       ELSE /\ (TRACEPARENT \in DictKeys(queue[Len(queue)].attributes))
                 = (TRACEPARENT \in DictKeys(OrEmpty(last.input.attributes)))
            /\ (TRACEPARENT \in DictKeys(OrEmpty(last.input.attributes)) =>
                  DictGet(queue[Len(queue)].attributes, TRACEPARENT)
                    = DictGet(last.input.attributes.items, TRACEPARENT))
    /\ DictKeys(queue[Len(queue)].attributes) \ ChannelKeys
         = DictKeys(OrEmpty(last.input.attributes)) \ ChannelKeys
    /\ \A key \in DictKeys(OrEmpty(last.input.attributes)) \ ChannelKeys :
         DictGet(queue[Len(queue)].attributes, key) = DictGet(last.input.attributes.items, key)

\* A message was published under a valid span, from a context that is not
\* empty, with an attribute of the caller's own and a stale context attribute.
C18_Witness ==
  /\ last.op = "publish_message"
  /\ IsValid(last.input.span)
  /\ last.input.attributes # NoneV
  /\ OWN_KEY \in DictKeys(last.input.attributes.items)
  /\ OURRITUAL_CONTEXT_HEADER \in DictKeys(last.input.attributes.items)
  /\ ToHeaderOf(store, Producer) # <<>>
  /\ DictGet(queue[Len(queue)].attributes, TRACEPARENT) = TraceParent(last.input.span)
  /\ DictGet(queue[Len(queue)].attributes, OWN_KEY) = OwnValue

\* The fields of an emitted record among which the context field goes.
ContextCarrier(emitted) == IF emitted.t = "json" THEN emitted.object ELSE emitted.extra

\* C19: a record that a hook emits while to_list() of the unit is not empty
\* has the context field, with the value of to_list(), for each of the three
\* hooks and with or without a trace.
C19_RecordsCarryContext ==
  (last.op \in LogHooks /\ ~last.input.raises /\ ToListOf(store, Producer) # <<>>) =>
    /\ ~last.raised
    /\ "ourritual" \in DictKeys(ContextCarrier(last.result))
    /\ DictGet(ContextCarrier(last.result), "ourritual") = ToListOf(store, Producer)

\* C20: when the read of the context raises inside a hook, the record is
\* emitted as it would be from an empty context, and no exception leaves the
\* hook.
C20_LoggingNeverFails ==
  (last.op \in LogHooks /\ last.input.raises) =>
    /\ ~last.raised
    /\ last.result = Emitted(last.op, last.input.record, last.input.span,
                             [ok |-> TRUE, value |-> <<>>])


(***************************************************************************)
(* One unit and its store: set_topic_info, set_custom_info, to_list        *)
(***************************************************************************)

\* The sets made in one run of the unit.
MaxSets == 4

\* "topic/name"
TOPIC_SLASH_NAME == S(<<"t", "o", "p", "i", "c", "/", "n", "a", "m", "e">>)

\* The keys the unit sets: a plain one, "topic" and "topic/name".
FlatKeys == {PLAIN_KEY, TOPIC, TOPIC_SLASH_NAME}

\* The values the unit sets: None, a str and an int.
FlatValues == {NoneV, StrV(S(<<"1">>)), IntV(2)}

\* No set_custom_info yet on a key.
Unset == [t |-> "unset"]

\* What a method that ends with `return self` returns.
Self(u) == [t |-> "OurRitualContext", unit |-> u]

\* After construction, with the record of the last value set on each key.
InitFlat ==
  /\ store = EmptyStore
  /\ calls = 0
  /\ last = NoCall
  /\ seen = [u \in Units |-> <<>>]
  /\ own = [u \in Units |-> {}]
  /\ queue = <<>>
  /\ worker = [written |-> [key \in FlatKeys |-> Unset]]

\* set_topic_info(topic), with None too
FlatSetTopic ==
  /\ calls < MaxSets
  /\ \E topic \in ApiTopics[Producer] :
       /\ store' = SetTopicInfo(store, Producer, topic)
       /\ last' = Call(Producer, "set_topic_info", [topic |-> topic], Self(Producer), FALSE)
  /\ calls' = calls + 1
  /\ UNCHANGED <<seen, own, queue, worker>>

\* set_custom_info(key, value)
FlatSetCustom ==
  /\ calls < MaxSets
  /\ \E key \in FlatKeys, value \in FlatValues :
       /\ store' = SetCustomInfo(store, Producer, key, value)
       /\ worker' = [worker EXCEPT !.written[key] = value]
       /\ last' = Call(Producer, "set_custom_info", [key |-> key, value |-> value],
                       Self(Producer), FALSE)
  /\ calls' = calls + 1
  /\ UNCHANGED <<seen, own, queue>>

NextFlat == FlatSetTopic \/ FlatSetCustom

\* One unit that writes its store.
SpecFlat == InitFlat /\ [][NextFlat]_vars

\* A new unit is given the header of the first one and calls from_header.
FlatFromHeader ==
  /\ calls < MaxSets
  /\ store' = FromHeader(BeginUnit(store, Worker), Worker, ToHeaderOf(store, Producer))
  /\ calls' = calls + 1
  /\ last' = Call(Worker, "from_header", NoneV, Self(Worker), FALSE)
  /\ UNCHANGED <<seen, own, queue, worker>>

NextShadow == FlatSetTopic \/ FlatSetCustom \/ FlatFromHeader

\* One unit that writes its store, and units that decode its header.
SpecShadow == InitFlat /\ [][NextShadow]_vars

(***************************************************************************)
(* The retry wrapper (retry_policy.RETRY_POLICY)                           *)
(***************************************************************************)

\* stop_after_attempt(3)
StopAfterAttempt == 3

\* The exceptions that decorated functions raise, with the class each derives
\* from: SessionNotFoundError(SkipRetry), SkipRetry(Exception).
ErrorBase ==
  [SessionNotFoundError |-> "SkipRetry", SkipRetry |-> "Exception",
   ConnectionError |-> "Exception", TimeoutError |-> "Exception"]
RaisedErrors == DOMAIN ErrorBase

\* isinstance(exception, SkipRetry)
IsSkipRetry(error) == error = "SkipRetry" \/ ErrorBase[error] = "SkipRetry"

\* A policy that retries after every exception.
ShouldRetryAlways(error) == TRUE

\* should_retry(exception)
ShouldRetry(error) == ~IsSkipRetry(error)

\* What the wrapper does after an attempt, the attempt_number-th of the call:
\* the no-op decorator gives the function itself; retry(...) returns the
\* result, raises an exception that is not to be retried, raises the last
\* exception after the last attempt (reraise=True), and else tries again.
AfterAttempt(no_retry, attempt_number, outcome) ==
  IF outcome.kind = "return" THEN "return"
  ELSE IF no_retry THEN "raise"
  ELSE IF ~ShouldRetry(outcome.value.type) THEN "raise"
  ELSE IF attempt_number >= StopAfterAttempt THEN "raise"
  ELSE "retry"

\* No call of a decorated function is under way.
NoAttempt ==
  [pc |-> "idle", no_retry |-> FALSE, attempts |-> <<>>, result |-> NoneV, slept |-> 0]

InitRetry ==
  /\ store = EmptyStore
  /\ calls = 0
  /\ last = NoCall
  /\ seen = [u \in Units |-> <<>>]
  /\ own = [u \in Units |-> {}]
  /\ queue = <<>>
  /\ worker = NoAttempt

\* A decorated function is called, in a process with NO_RETRY set or unset:
\* the first attempt begins.
CallDecorated ==
  /\ worker.pc \in {"idle", "returned", "raised"}
  /\ calls < MaxCalls
  /\ \E no_retry \in BOOLEAN : worker' = [NoAttempt EXCEPT !.pc = "attempt", !.no_retry = no_retry]
  /\ calls' = calls + 1
  /\ last' = Call(Producer, "call", NoneV, NoneV, FALSE)
  /\ UNCHANGED <<store, seen, own, queue>>

\* The wrapper with the outcome of an attempt.
Attempted(outcome, decision) ==
  /\ worker' = [worker EXCEPT
                  !.attempts = Append(@, outcome),
                  !.pc = IF decision = "return" THEN "returned"
                         ELSE IF decision = "raise" THEN "raised" ELSE "sleep",
                  !.result = IF decision = "retry" THEN NoneV ELSE outcome]
  /\ last' = Call(Producer, "attempt", NoneV, outcome, outcome.kind = "raise")
  /\ UNCHANGED <<store, calls, seen, own, queue>>

\* The function returns.
AttemptReturns ==
  /\ worker.pc = "attempt"
  /\ \E value \in HandlerValues :
       Attempted(Returned(value),
                 AfterAttempt(worker.no_retry, Len(worker.attempts) + 1, Returned(value)))

\* The function raises.
AttemptRaises ==
  /\ worker.pc = "attempt"
  /\ \E error \in RaisedErrors :
       Attempted(Raised([t |-> "exception", type |-> error]),
                 AfterAttempt(worker.no_retry, Len(worker.attempts) + 1,
                              Raised([t |-> "exception", type |-> error])))

\* before_sleep and the wait are over: the next attempt begins.
RetryAfterSleep ==
  /\ worker.pc = "sleep"
  /\ worker' = [worker EXCEPT !.pc = "attempt", !.slept = @ + 1]
  /\ last' = Call(Producer, "before_sleep", NoneV, NoneV, FALSE)
  /\ UNCHANGED <<store, calls, seen, own, queue>>

NextRetry == CallDecorated \/ AttemptReturns \/ AttemptRaises \/ RetryAfterSleep

\* Calls of a function decorated with RETRY_POLICY.
SpecRetry == InitRetry /\ [][NextRetry]_vars

(***************************************************************************)
(* The replay of the dead letter queue (dlq_endpoints)                     *)
(***************************************************************************)

\* The endpoints of /dlq/replay: over HTTP when http_replay is set, else
\* through Pub/Sub.
ReplayEndpoints == {"reprocess_message_http", "reprocess_message_queue"}

\* The values of max_messages that callers pass: one, and the default.
MaxMessagesArgs == {1, 5}

\* The object that the variable `response` is bound to: what
\* read_dlq_messages returned, or what client.post returned.
PullResponse == "PullResponse"
HttpxResponse == "httpx.Response"

\* No replay is under way. Of a replay: the endpoint, the number of messages
\* pulled, the message the loop is at, the messages sent again and those
\* acknowledged, the variable `response`, and the answer.
NoReplay ==
  [pc |-> "idle", endpoint |-> "none", pulled |-> 0, at |-> 0, sent |-> {}, acked |-> {},
   failed |-> 0, response |-> "none", answer |-> NoneV]

InitReplay ==
  /\ store = EmptyStore
  /\ calls = 0
  /\ last = NoCall
  /\ seen = [u \in Units |-> <<>>]
  /\ own = [u \in Units |-> {}]
  /\ queue = <<>>
  /\ worker = NoReplay

\* return {"status": "success", "message": ...}
Success(message) == [status |-> 200, message |-> message]

\* raise HTTPException(status_code=500, ...) of the except clause
ServerError == [status |-> 500, message |-> "Error pulling messages from DLQ"]

\* The message of the return statement after the loop, by the number of
\* messages that len() gives.
Reprocessed(count) == [text |-> "Successfully reprocessed messages from DLQ", count |-> count]

\* The return statement after the loop evaluates
\* len(response.received_messages): an object without that attribute raises
\* AttributeError, which the except clause turns into the HTTP 500.
AnswerAfterLoop(response, pulled) ==
  IF response = PullResponse THEN Success(Reprocessed(pulled)) ELSE ServerError

\* The variable `response` after the re-send: reprocess_message_http binds it
\* to what client.post returned, reprocess_message_queue leaves it alone.
ResponseAfterSend(endpoint, response) ==
  IF endpoint = "reprocess_message_http" THEN HttpxResponse ELSE response

\* A loop that acknowledges whatever the re-send did.
AfterSendAlwaysAck(ok) == "ack"

\* Where the loop goes after the re-send: to acknowledge_messages when
\* nothing was raised, else to the except clause.
AfterSend(ok) == IF ok THEN "ack" ELSE "except"

\* The number of messages that subscriber.pull gives.
Pulled(max_messages, dlq) == IF Len(dlq) < max_messages THEN Len(dlq) ELSE max_messages

\* /dlq/replay is called: read_dlq_messages pulls, or raises; with nothing
\* pulled the endpoint answers at once.
Replay(endpoint) ==
  /\ worker.pc \in {"idle", "answered"}
  /\ \E max_messages \in MaxMessagesArgs, ok \in BOOLEAN :
       worker' =
         IF ~ok THEN [NoReplay EXCEPT !.pc = "answered", !.endpoint = endpoint,
                                      !.answer = ServerError]
         ELSE IF Pulled(max_messages, queue) = 0
           THEN [NoReplay EXCEPT !.pc = "answered", !.endpoint = endpoint,
                                 !.response = PullResponse,
                                 !.answer = Success("No messages in DLQ")]
         ELSE [NoReplay EXCEPT !.pc = "send", !.endpoint = endpoint,
                               !.pulled = Pulled(max_messages, queue), !.at = 1,
                               !.response = PullResponse]
  /\ last' = Call(Producer, endpoint, NoneV, NoneV, FALSE)
  /\ UNCHANGED <<store, calls, seen, own, queue>>

\* reprocess_message_http
ReplayHttp == Replay("reprocess_message_http")

\* reprocess_message_queue
ReplayQueue == Replay("reprocess_message_queue")

\* The message the loop is at is posted to the webhook, or published, and
\* this succeeds or raises.
Resend ==
  /\ worker.pc = "send"
  /\ \E ok \in BOOLEAN :
       /\ worker' =
            IF AfterSend(ok) = "ack"
            THEN [worker EXCEPT !.pc = "ack",
                                !.sent = IF ok THEN @ \cup {worker.at} ELSE @,
                                !.response = ResponseAfterSend(worker.endpoint, @)]
            ELSE [worker EXCEPT !.pc = "answered", !.failed = worker.at,
                                !.answer = ServerError]
       /\ last' = Call(Producer, "resend", NoneV, NoneV, ~ok)
  /\ UNCHANGED <<store, calls, seen, own, queue>>

\* acknowledge_messages([msg.ack_id]): the message leaves the queue, and the
\* loop goes on or the endpoint answers; or the call raises.
Acknowledge ==
  /\ worker.pc = "ack"
  /\ \E ok \in BOOLEAN :
       /\ worker' =
            IF ~ok THEN [worker EXCEPT !.pc = "answered", !.answer = ServerError]
            ELSE IF worker.at < worker.pulled
              THEN [worker EXCEPT !.pc = "send", !.acked = @ \cup {worker.at}, !.at = @ + 1]
            ELSE [worker EXCEPT !.pc = "answered", !.acked = @ \cup {worker.at},
                                !.answer = AnswerAfterLoop(worker.response, worker.pulled)]
       /\ queue' = IF ok THEN Tail(queue) ELSE queue
       /\ last' = Call(Producer, "acknowledge_messages", NoneV, NoneV, ~ok)
  /\ UNCHANGED <<store, calls, seen, own>>

NextReplay ==
  \/ PublishToDlq
  \/ ReplayHttp
  \/ ReplayQueue
  \/ Resend
  \/ Acknowledge

\* Messages that go to the dead letter queue, and replays of it.
SpecReplay == InitReplay /\ [][NextReplay]_vars

(***************************************************************************)
(* Heartbeats of long operations (temporal_utils.heartbeat)                *)
(***************************************************************************)

\* The periodic heartbeats of one operation.
MaxBeats == 3

\* The async context manager and the one of HeartbeatManager.sync.
AsyncManager == "HeartbeatManager"
SyncManager == "HeartbeatManager.sync"

\* The heartbeats that reach activity.heartbeat and are sent.
StartedBeat == [t |-> "started"]
PeriodicBeat(count) == [t |-> "periodic", count |-> count]
FinalBeat(status, total_heartbeats) ==
  [t |-> "final", status |-> status, total_heartbeats |-> total_heartbeats]

\* Before the with statement. Of a manager: where the body is, where the loop
\* of the background task or thread is, the heartbeat count, the stop event,
\* what the body did and what the with statement gave to its caller, whether
\* a send or a callback raised, whether the join timed out, and whether the
\* loop had ended when the with statement was left.
NoManager ==
  [kind |-> "none", body |-> "idle", loop |-> "none", count |-> 0, stop |-> FALSE,
   outcome |-> NoneV, result |-> NoneV, send_raised |-> FALSE, callback_raised |-> FALSE,
   timed_out |-> FALSE, ended_before |-> FALSE]

InitHeartbeat ==
  /\ store = EmptyStore
  /\ calls = 0
  /\ last = NoCall
  /\ seen = [u \in Units |-> <<>>]
  /\ own = [u \in Units |-> {}]
  /\ queue = <<>>
  /\ worker = NoManager

\* final_status: __aexit__ has exc_type, the finally clause of sync has the
\* literal "completed".
FinalStatus(kind, outcome) ==
  IF kind = AsyncManager /\ outcome.kind = "raise" THEN "failed" ELSE "completed"

\* The heartbeats sent, with one more when the send did not raise.
Sent(beats, beat, ok) == IF ok THEN Append(beats, beat) ELSE beats

\* async with HeartbeatManager(...): __aenter__ makes the task, which has not
\* run yet, and sends the started heartbeat.
AsyncEnter ==
  /\ worker.body = "idle"
  /\ worker' = [worker EXCEPT !.kind = AsyncManager, !.body = "body", !.loop = "wait"]
  /\ queue' = <<StartedBeat>>
  /\ last' = Call(Producer, "__aenter__", NoneV, NoneV, FALSE)
  /\ UNCHANGED <<store, calls, seen, own>>

\* with HeartbeatManager.sync(...): the started heartbeat is sent and the
\* thread is started.
SyncEnter ==
  /\ worker.body = "idle"
  /\ worker' = [worker EXCEPT !.kind = SyncManager, !.body = "body", !.loop = "check"]
  /\ queue' = <<StartedBeat>>
  /\ last' = Call(Producer, "sync", NoneV, NoneV, FALSE)
  /\ UNCHANGED <<store, calls, seen, own>>

\* One pass of _heartbeat_loop while the body awaits: the count goes up, the
\* heartbeat is sent and on_heartbeat is called, either of which can raise
\* into the except clause, and the task waits again.
AsyncIteration ==
  /\ worker.kind = AsyncManager
  /\ worker.body = "body"
  /\ worker.loop = "wait"
  /\ ~worker.stop
  /\ worker.count < MaxBeats
  /\ \E send_ok \in BOOLEAN, callback_ok \in BOOLEAN :
       /\ worker' = [worker EXCEPT !.count = @ + 1,
                                   !.send_raised = @ \/ ~send_ok,
                                   !.callback_raised = @ \/ (send_ok /\ ~callback_ok)]
       /\ queue' = Sent(queue, PeriodicBeat(worker.count + 1), send_ok)
       /\ last' = Call("loop", "_heartbeat_loop", NoneV, NoneV, ~send_ok \/ ~callback_ok)
  /\ UNCHANGED <<store, calls, seen, own>>

\* while not stop_event.is_set()
ThreadCheck ==
  /\ worker.kind = SyncManager
  /\ worker.loop = "check"
  /\ worker.stop \/ worker.count < MaxBeats
  /\ worker' = [worker EXCEPT !.loop = IF worker.stop THEN "ended" ELSE "count"]
  /\ last' = Call("loop", "is_set", NoneV, NoneV, FALSE)
  /\ UNCHANGED <<store, calls, seen, own, queue>>

\* heartbeat_count[0] += 1
ThreadCount ==
  /\ worker.loop = "count"
  /\ worker' = [worker EXCEPT !.loop = "send", !.count = @ + 1]
  /\ last' = Call("loop", "count", NoneV, NoneV, FALSE)
  /\ UNCHANGED <<store, calls, seen, own, queue>>

\* activity.heartbeat(heartbeat_details) and on_heartbeat(heartbeat_details)
\* in the thread, either of which can raise into the except clause.
ThreadSend ==
  /\ worker.loop = "send"
  /\ \E send_ok \in BOOLEAN, callback_ok \in BOOLEAN :
       /\ worker' = [worker EXCEPT !.loop = "wait",
                                   !.send_raised = @ \/ ~send_ok,
                                   !.callback_raised = @ \/ (send_ok /\ ~callback_ok)]
       /\ queue' = Sent(queue, PeriodicBeat(worker.count), send_ok)
       /\ last' = Call("loop", "heartbeat_thread", NoneV, NoneV, ~send_ok \/ ~callback_ok)
  /\ UNCHANGED <<store, calls, seen, own>>

\* stop_event.wait(timeout=interval) returns.
ThreadWait ==
  /\ worker.kind = SyncManager
  /\ worker.loop = "wait"
  /\ worker' = [worker EXCEPT !.loop = "check"]
  /\ last' = Call("loop", "wait", NoneV, NoneV, FALSE)
  /\ UNCHANGED <<store, calls, seen, own, queue>>

\* The body of the with statement returns or raises.
BodyEnds ==
  /\ worker.body = "body"
  /\ \E outcome \in {Returned(NoneV)} \cup {Raised(error) : error \in HandlerErrors} :
       /\ worker' = [worker EXCEPT !.body = "exit", !.outcome = outcome]
       /\ last' = Call(Producer, "body", NoneV, outcome, outcome.kind = "raise")
  /\ UNCHANGED <<store, calls, seen, own, queue>>

\* __aexit__: the stop event is set, the task, which is waiting, is cancelled
\* and awaited, the final heartbeat is sent, and False is returned.
AsyncExit ==
  /\ worker.kind = AsyncManager
  /\ worker.body = "exit"
  /\ worker' = [worker EXCEPT !.body = "done", !.stop = TRUE, !.loop = "ended",
                              !.ended_before = TRUE, !.result = worker.outcome]
  /\ queue' = Append(queue, FinalBeat(FinalStatus(worker.kind, worker.outcome), worker.count))
  /\ last' = Call(Producer, "__aexit__", NoneV, worker.outcome, worker.outcome.kind = "raise")
  /\ UNCHANGED <<store, calls, seen, own>>

\* finally: stop_event.set()
SyncSetStop ==
  /\ worker.kind = SyncManager
  /\ worker.body = "exit"
  /\ worker' = [worker EXCEPT !.body = "join", !.stop = TRUE]
  /\ last' = Call(Producer, "set", NoneV, NoneV, FALSE)
  /\ UNCHANGED <<store, calls, seen, own, queue>>

\* thread.join(timeout=interval + 1.0) returns: the thread has ended, or the
\* time is over.
SyncJoin ==
  /\ worker.body = "join"
  /\ worker' = [worker EXCEPT !.body = "final", !.timed_out = worker.loop # "ended"]
  /\ last' = Call(Producer, "join", NoneV, NoneV, FALSE)
  /\ UNCHANGED <<store, calls, seen, own, queue>>

\* The final heartbeat of sync, and the end of the finally clause.
SyncFinal ==
  /\ worker.body = "final"
  /\ worker' = [worker EXCEPT !.body = "done", !.ended_before = worker.loop = "ended",
                              !.result = worker.outcome]
  /\ queue' = Append(queue, FinalBeat(FinalStatus(worker.kind, worker.outcome), worker.count))
  /\ last' = Call(Producer, "finally", NoneV, worker.outcome, worker.outcome.kind = "raise")
  /\ UNCHANGED <<store, calls, seen, own>>

NextHeartbeat ==
  \/ AsyncEnter
  \/ SyncEnter
  \/ AsyncIteration
  \/ ThreadCheck
  \/ ThreadCount
  \/ ThreadSend
  \/ ThreadWait
  \/ BodyEnds
  \/ AsyncExit
  \/ SyncSetStop
  \/ SyncJoin
  \/ SyncFinal

\* An operation under a heartbeat manager, and the manager's loop.
SpecHeartbeat == InitHeartbeat /\ [][NextHeartbeat]_vars

(***************************************************************************)
(* The cache of Airflow variables (airflow.core.dynamic_imports)           *)
(***************************************************************************)

\* The minutes the clock runs.
MaxNow == 7

\* timedelta(minutes=5)
CacheMinutes == 5

VariableNames == {"batch_size"}
VariableValues == {IntV(1), IntV(2)}

\* env + "_" + project_file + "_" + str(hash of the call arguments)
MemoizationKey(env, project_file, arguments_hash) ==
  env \o "_" \o project_file \o "_" \o arguments_hash

DecoratedCall == [env |-> "dev", project_file |-> "etl", arguments_hash |-> "17"]

CacheKeys ==
  VariableNames \cup
  {MemoizationKey(DecoratedCall.env, DecoratedCall.project_file, DecoratedCall.arguments_hash)}

\* dict()
EmptyCache == [key \in CacheKeys |-> Unset]

\* The singleton after Cache(): its variables and the time they were
\* validated; with it the clock, the Airflow Variable store and what the
\* decorated function computes now.
InitCache ==
  /\ store = EmptyStore
  /\ calls = 0
  /\ last = NoCall
  /\ seen = [u \in Units |-> <<>>]
  /\ own = [u \in Units |-> {}]
  /\ queue = <<>>
  /\ \E value \in VariableValues \cup {Unset}, computed \in VariableValues :
       worker = [cache_variables |-> EmptyCache, cache_valid |-> 0, now |-> 0,
                 variables |-> [name \in VariableNames |-> value], fn |-> computed]

\* Cache.clear(): the two assignments bind names local to the method; the
\* attributes of the instance stay.
Clear(cache, now) == cache

\* cache.__cache_valid + timedelta(minutes=5) < timezone.utcnow()
Expired(cache) == cache.cache_valid + CacheMinutes < cache.now

\* Cache.get_variables(): the instance after the call; its cache_variables
\* are what the call returns.
GetVariables(cache) == IF Expired(cache) THEN Clear(cache, cache.now) ELSE cache

\* Variable.get(name), and default_value on KeyError.
VariableGet(variables, name, default_value) ==
  IF variables[name] = Unset THEN default_value ELSE variables[name]

\* The value a lookup gives: the cached one if the key is there, the fresh one
\* if not.
Lookup(cache_variables, key, fresh) ==
  IF cache_variables[key] # Unset THEN cache_variables[key] ELSE fresh

\* A minute passes.
Tick ==
  /\ worker.now < MaxNow
  /\ worker' = [worker EXCEPT !.now = @ + 1]
  /\ last' = Call("clock", "utcnow", NoneV, NoneV, FALSE)
  /\ UNCHANGED <<store, calls, seen, own, queue>>

\* Somebody sets or deletes an Airflow variable, or what the decorated
\* function reads changes.
VariableSet ==
  /\ \E name \in VariableNames, value \in VariableValues \cup {Unset}, computed \in VariableValues :
       /\ worker.variables[name] # value \/ worker.fn # computed
       /\ worker' = [worker EXCEPT !.variables[name] = value, !.fn = computed]
  /\ last' = Call("airflow", "Variable.set", NoneV, NoneV, FALSE)
  /\ UNCHANGED <<store, calls, seen, own, queue>>

\* Cache.get_variables()
CacheGetVariables ==
  /\ worker' = GetVariables(worker)
  /\ last' = Call(Producer, "get_variables", [expired |-> Expired(worker)],
                  GetVariables(worker).cache_variables, FALSE)
  /\ UNCHANGED <<store, calls, seen, own, queue>>

\* Cache.get_variable(name, default_value)
CacheGetVariable ==
  /\ \E name \in VariableNames, default_value \in {NoneV, IntV(0)} :
       LET cache == GetVariables(worker)
           value == Lookup(cache.cache_variables, name,
                           VariableGet(worker.variables, name, default_value))
       IN /\ worker' = [cache EXCEPT !.cache_variables[name] = value]
          /\ last' = Call(Producer, "get_variable",
                          [name |-> name, default_value |-> default_value,
                           expired |-> Expired(worker)], value, FALSE)
  /\ UNCHANGED <<store, calls, seen, own, queue>>

\* A call of a function under CacheDecorator.
Wrapper ==
  /\ LET cache == GetVariables(worker)
         memoization_key == MemoizationKey(DecoratedCall.env, DecoratedCall.project_file,
                                           DecoratedCall.arguments_hash)
         value == Lookup(cache.cache_variables, memoization_key, worker.fn)
     IN /\ worker' = [cache EXCEPT !.cache_variables[memoization_key] = value]
        /\ last' = Call(Producer, "wrapper", [expired |-> Expired(worker)], value, FALSE)
  /\ UNCHANGED <<store, calls, seen, own, queue>>

NextCache ==
  \/ Tick
  \/ VariableSet
  \/ CacheGetVariables
  \/ CacheGetVariable
  \/ Wrapper

\* The cache of variables and of decorated calls over the minutes.
SpecCache == InitCache /\ [][NextCache]_vars
\* The entries that the flattening of a store is to have: the topic under
\* "ourritual/topic/name", and each custom entry that is not None under
\* "ourritual/<key>" with str(value).
Flattening(topic, items) ==
  (IF topic # NoneV THEN {<<TOPIC_NAME_KEY, topic.s>>} ELSE {})
    \cup {<<ROOT \o items[i].k, PyStr(items[i].v)>> : i \in {j \in 1..Len(items) : items[j].v # NoneV}}

\* C21: to_list() holds the topic under "ourritual/topic/name" iff the topic is
\* set, str(v) under "ourritual/<k>" for each custom entry with v not None,
\* and nothing else; with nothing set it is empty and to_header() is "".
C21_Flattening ==
  /\ Entries(ToListOf(store, Producer))
       = Flattening(TopicInfo(store, Producer), CustomEntries(store, Producer))
  /\ (TOPIC_NAME_KEY \in DictKeys(ToListOf(store, Producer))) = (TopicInfo(store, Producer) # NoneV)
  /\ (Flattening(TopicInfo(store, Producer), CustomEntries(store, Producer)) = {} =>
        ToListOf(store, Producer) = <<>> /\ ToHeaderOf(store, Producer) = <<>>)

\* C22: the custom map holds for each key the value of the last
\* set_custom_info on it; set_custom_info changes no other key and not the
\* topic, set_topic_info changes no custom entry, and both return self.
C22_Upsert ==
  [][/\ \A key \in FlatKeys :
          IF worker'.written[key] = Unset
          THEN key \notin DictKeys(CustomEntries(store', Producer))
          ELSE /\ key \in DictKeys(CustomEntries(store', Producer))
               /\ DictGet(CustomEntries(store', Producer), key) = worker'.written[key]
     /\ DictKeys(CustomEntries(store', Producer)) \subseteq FlatKeys
     /\ (last'.op = "set_custom_info" =>
           /\ TopicInfo(store', Producer) = TopicInfo(store, Producer)
           /\ \A key \in DictKeys(CustomEntries(store, Producer)) \ {last'.input.key} :
                /\ key \in DictKeys(CustomEntries(store', Producer))
                /\ DictGet(CustomEntries(store', Producer), key)
                     = DictGet(CustomEntries(store, Producer), key))
     /\ (last'.op = "set_topic_info" =>
           /\ TopicInfo(store', Producer) = last'.input.topic
           /\ CustomInfo(store', Producer) = CustomInfo(store, Producer))
     /\ last'.result = Self(Producer)]_vars

\* A key was set again, to None, beside another key and a topic, and the
\* topic was then cleared.
C22_Witness ==
  /\ last.op = "set_topic_info"
  /\ last.input.topic = NoneV
  /\ worker.written[PLAIN_KEY] = NoneV
  /\ worker.written[TOPIC] = IntV(2)
  /\ Len(CustomEntries(store, Producer)) = 2
  /\ DictGet(CustomEntries(store, Producer), PLAIN_KEY) = NoneV

\* C26: whenever the topic is set, to_list() holds it under
\* "ourritual/topic/name", whatever the custom keys are; and the topic that
\* from_header sets in a new unit is the topic of the sender, if any.
C26_TopicNotShadowed ==
  /\ (TopicInfo(store, Producer) # NoneV =>
        /\ TOPIC_NAME_KEY \in DictKeys(ToListOf(store, Producer))
        /\ DictGet(ToListOf(store, Producer), TOPIC_NAME_KEY) = TopicInfo(store, Producer).s)
  /\ (last.op = "from_header" =>
        TopicInfo(store, Worker) \in {NoneV, TopicInfo(store, Producer)})

\* C27: through every outbound interceptor each incoming header other than
\* the context header is passed on with its value, the incoming map is left
\* as it was, and no key but the context header is added.
C27_MergePreserves ==
  (last.op \in StartOps) =>
    /\ \A key \in DictKeys(last.input) \ {CONTEXT_HEADER_KEY} :
         /\ key \in DictKeys(last.result)
         /\ DictGet(last.result, key) = DictGet(last.input, key)
    /\ DictKeys(last.result) \ {CONTEXT_HEADER_KEY} \subseteq DictKeys(last.input)
    /\ ExistingAfterMerge(last.input, GetContextHeaders(store, last.unit)) = last.input

\* A call came with another propagator's header and a context header, and
\* left with the first as it was and the second replaced.
C27_Witness ==
  /\ last.op \in StartOps
  /\ OTHER_HEADER_KEY \in DictKeys(last.input)
  /\ CONTEXT_HEADER_KEY \in DictKeys(last.input)
  /\ DictGet(last.result, OTHER_HEADER_KEY) = OtherPayload
  /\ DictGet(last.result, CONTEXT_HEADER_KEY) # DictGet(last.input, CONTEXT_HEADER_KEY)

\* The attempt of a call that raised SkipRetry or a subclass of it.
SkippedAt(attempts, i) ==
  attempts[i].kind = "raise" /\ attempts[i].value.type \in {"SkipRetry", "SessionNotFoundError"}

C24_HttpReplaySucceeds ==
  (/\ worker.pc = "answered"
   /\ worker.endpoint = "reprocess_message_http"
   /\ worker.pulled >= 1
   /\ worker.sent = 1..worker.pulled
   /\ worker.acked = 1..worker.pulled) =>
    /\ worker.answer.status = 200
    /\ worker.answer.message.count = worker.pulled

\* C25: in both endpoints a message is acknowledged only after its own
\* re-send succeeded; when the re-send of a message fails, that message and
\* those after it in the batch are not acknowledged, they stay in the queue,
\* and the endpoint answers with HTTP 500.
C25_AckAfterResend ==
  /\ worker.acked \subseteq worker.sent
  /\ (worker.pc = "answered" /\ worker.failed > 0) =>
       /\ worker.acked = 1..(worker.failed - 1)
       /\ worker.answer.status = 500
       /\ Len(queue) >= worker.pulled - (worker.failed - 1)

\* The second message of a batch could not be sent again.
C25_Witness ==
  /\ worker.pc = "answered"
  /\ worker.pulled = 2
  /\ worker.failed = 2
  /\ worker.acked = {1}
  /\ worker.answer.status = 500

\* The heartbeats of one kind among those sent, in the order sent.
BeatsOf(beats, kind) == SelectSeq(beats, LAMBDA beat : beat.t = kind)

\* C28: the started heartbeat is the first one sent, the periodic heartbeats
\* carry the counts 1, 2, 3, ... in this order, at most one final heartbeat is
\* sent and exactly one when the with statement is left, its total_heartbeats
\* is the count of the last periodic heartbeat, and nothing is sent after it.
C28_HeartbeatOrder ==
  /\ (queue # <<>> => queue[1] = StartedBeat)
  /\ Len(BeatsOf(queue, "started")) <= 1
  /\ \A i \in 1..Len(BeatsOf(queue, "periodic")) : BeatsOf(queue, "periodic")[i].count = i
  /\ Len(BeatsOf(queue, "final")) = (IF worker.body = "done" THEN 1 ELSE 0)
  /\ \A i \in 1..Len(queue) :
       queue[i].t = "final" =>
         /\ i = Len(queue)
         /\ queue[i].total_heartbeats = Len(BeatsOf(queue, "periodic"))

\* C29: when the with statement is left, the caller gets what the body
\* returned or raised, the loop has ended before, and the final heartbeat says
\* "failed" if the body raised and "completed" if not; after a send or a
\* callback that raised the loop goes on, and the body gets nothing of it.
C29_HeartbeatOutcome ==
  /\ (worker.body = "done") =>
       /\ worker.result = worker.outcome
       /\ worker.ended_before
       /\ queue[Len(queue)].t = "final"
       /\ queue[Len(queue)].status = (IF worker.outcome.kind = "raise" THEN "failed" ELSE "completed")
  /\ (last.unit = "loop" /\ last.raised) =>
       /\ worker.loop = "wait"
       /\ worker.outcome = (IF worker.body = "body" THEN NoneV ELSE worker.outcome)

\* C30: a call of Cache.get_variables() more than five minutes after the
\* cache was validated returns an empty map and the window starts again at the
\* time of the call; Cache.get_variable(name) then gives what the Airflow
\* Variable store holds (the default if it holds nothing), and a function
\* under CacheDecorator is computed again.
C30_CacheExpires ==
  /\ (last.op = "get_variables" /\ last.input.expired) =>
       /\ last.result = EmptyCache
       /\ worker.cache_valid = worker.now
  /\ (last.op = "get_variable" /\ last.input.expired) =>
       last.result = VariableGet(worker.variables, last.input.name, last.input.default_value)
  /\ (last.op = "wrapper" /\ last.input.expired) => last.result = worker.fn

====
